---- MODULE Spec2Model ----
(***************************************************************************)
(* Session lifecycle, token verification and tenant/role authorization of  *)
(* the VetrAI platform.                                                    *)
(*                                                                         *)
(* Two authentication services live in the repository:                     *)
(*   - the store-backed service (services/auth/app/main.py with the        *)
(*     helpers of services/auth/app/auth.py): opaque tokens, hashed rows,  *)
(*   - the JWT service (services/auth/app/routes.py with                   *)
(*     services/shared/utils/security.py and services/shared/middleware):  *)
(*     signed self-contained tokens, RBAC and tenant scoping.              *)
(* SpecStore is the first under concurrent requests and crashes,           *)
(* SpecVerify the first serving one request at a time with the clock and   *)
(* bearer verification; SpecJwt is the account and session routes of the   *)
(* second, SpecRbac its role and tenant dependencies, SpecSession the life *)
(* of its sessions with the clock (login, refresh, logout, GET /me),       *)
(* SpecLogout the same within the life of the tokens, SpecDeactivate the   *)
(* sessions of an administrator who deactivates accounts. SpecRegister is  *)
(* the registration of both services under concurrent requests, SpecLogin  *)
(* the login of both, SpecDigest the login of both over the digests an     *)
(* account row can hold. SpecTenancy is the tenancy service called by the  *)
(* accounts of two organizations, SpecCrossTenant the routes that fetch one*)
(* account or one organization by id, SpecPassword and SpecProfile what an *)
(* account does to its own password and profile, SpecEscalate the routes   *)
(* that write a role, SpecOptional the two bearer dependencies over the    *)
(* tokens a holder of the key can sign, SpecTwoSessions the sessions of two*)
(* accounts side by side.                                                  *)
(***************************************************************************)
EXTENDS Integers, Sequences, FiniteSets, TLC

\* ------------------------------------------------------------------------
\* Bounds of the model
\* ------------------------------------------------------------------------
MaxTok == 6          \* raw opaque tokens generated in one behaviour
MaxTicks == 2        \* clock advances in one behaviour
MaxLogins == 1       \* successful logins of the JWT service in one behaviour

\* ------------------------------------------------------------------------
\* Program constants
\* ------------------------------------------------------------------------
ACCESS_EXPIRE == 900
REFRESH_EXPIRE == 2592000

None == "None"
Reqs == {"r1", "r2"}                 \* concurrently served requests
Emails == {"alice@example.com"}
JwtEmails == {"alice@example.com", "bob@example.com"}
Passwords == {"Sup3rSecret!", "wrong"}
Orgs == {"acme", "globex"}
\* clock advances: to the instant a fresh access token expires at (not yet
\* expired there, the comparison is strict) and past the expiry of a fresh
\* refresh token
Deltas == {ACCESS_EXPIRE, REFRESH_EXPIRE + 1}

VARIABLES
    User,            \* store-backed service: accounts
    AccessToken,     \* store-backed service: access token rows
    RefreshToken,    \* store-backed service: refresh token rows
    now,             \* datetime.utcnow()
    ticks,           \* number of clock advances so far
    ntok,            \* number of raw tokens generated so far
    req,             \* the requests in flight, one per slot
    last,            \* the step just taken and what it returned
    refreshWins,     \* history: raw refresh token -> number of 200 responses
    rotatedOut,      \* history: hashes stored before a refresh that succeeded
    expiredSeen,     \* history: hashes verify_access_token rejected as expired
    users,           \* JWT service: table users
    refresh_tokens,  \* JWT service: table refresh_tokens
    issued,          \* JWT service: the tokens handed out to clients
    exchanged,       \* history: refresh tokens POST /refresh answered with 200
    loggedOut,       \* history: the refresh tokens presented with a logout
                     \* answered 200 by the account that owns them
    pending,         \* register requests between their lookup and their commit
    organizations    \* tenancy service: table organizations

storeVars == <<User, AccessToken, RefreshToken, now, ticks, ntok, req, last,
               refreshWins, rotatedOut, expiredSeen>>

jwtVars == <<users, refresh_tokens, issued, exchanged, loggedOut, pending,
             organizations>>

vars == <<storeVars, jwtVars>>

\* ------------------------------------------------------------------------
\* auth.py helpers
\* ------------------------------------------------------------------------
get_password_hash(password) == <<"argon2", password>>

verify_password(password, password_hash) ==
    IF Len(password_hash) = 2 /\ password_hash[1] = "argon2"
    THEN password_hash[2] = password
    ELSE FALSE

_hash_token(token) == <<"sha256", token>>

hash_refresh_token(token) == <<"sha256", token>>

\* rows of a table that belong to user_id
RowsOfUser(table, user_id) == {row \in table : row.user_id = user_id}

\* session.exec(q).first() of a query that finds a row (token_hash and email
\* are unique, so the query finds at most one)
First(rows) == CHOOSE row \in rows : TRUE

\* "expires_at and expires_at < datetime.utcnow()": every row is inserted with
\* an expiry (main.py always passes one)
IsExpired(row, t) == row.expires_at < t

\* the n-th raw token the generators (secrets.token_urlsafe, sha256 of
\* time and os.urandom) hand out: a string never handed out before
RawToken(n) == ToString(n)

\* store_refresh_token: the table after the insert and commit
store_refresh_token(table, user_id, token, expires_at) ==
    table \cup {[user_id |-> user_id,
                 token_hash |-> hash_refresh_token(token),
                 expires_at |-> expires_at]}

revoke_refresh_tokens_for_user(table, user_id) ==
    table \ RowsOfUser(table, user_id)

\* verify_refresh_token that looks the row up by its hash alone
verify_refresh_token_any(table, user_id, token, t) ==
    LET found == {row \in table : row.token_hash = hash_refresh_token(token)}
        rt == First(found)
    IN  IF found = {} THEN [ret |-> FALSE, table |-> table]
        ELSE IF IsExpired(rt, t) THEN [ret |-> FALSE, table |-> table \ {rt}]
        ELSE [ret |-> TRUE, table |-> table]

\* verify_refresh_token: the returned bool and the table after the call
verify_refresh_token(table, user_id, token, t) ==
    LET found == {row \in table : row.user_id = user_id
                        /\ row.token_hash = hash_refresh_token(token)}
        rt == First(found)
    IN  IF found = {} THEN [ret |-> FALSE, table |-> table]
        ELSE IF IsExpired(rt, t) THEN [ret |-> FALSE, table |-> table \ {rt}]
        ELSE [ret |-> TRUE, table |-> table]

\* create_access_token: the table after the insert and commit
create_access_token(table, user_id, token, t) ==
    table \cup {[user_id |-> user_id,
                 token_hash |-> _hash_token(token),
                 expires_at |-> t + ACCESS_EXPIRE]}

\* verify_access_token that rejects an expired row but leaves it in the table
verify_access_token_keep(table, token, t) ==
    LET found == {row \in table : row.token_hash = _hash_token(token)}
        at == First(found)
    IN  IF found = {} THEN [ret |-> None, expired |-> FALSE, table |-> table]
        ELSE IF IsExpired(at, t)
             THEN [ret |-> None, expired |-> TRUE, table |-> table]
        ELSE [ret |-> at.user_id, expired |-> FALSE, table |-> table]

\* verify_access_token that consumes the row it accepts
verify_access_token_once(table, token, t) ==
    LET found == {row \in table : row.token_hash = _hash_token(token)}
        at == First(found)
    IN  IF found = {} THEN [ret |-> None, expired |-> FALSE, table |-> table]
        ELSE IF IsExpired(at, t)
             THEN [ret |-> None, expired |-> TRUE, table |-> table \ {at}]
        ELSE [ret |-> at.user_id, expired |-> FALSE, table |-> table \ {at}]

\* verify_access_token: the returned user_id (or None), whether the row was
\* found expired, and the table after the call
verify_access_token(table, token, t) ==
    LET found == {row \in table : row.token_hash = _hash_token(token)}
        at == First(found)
    IN  IF found = {} THEN [ret |-> None, expired |-> FALSE, table |-> table]
        ELSE IF IsExpired(at, t)
             THEN [ret |-> None, expired |-> TRUE, table |-> table \ {at}]
        ELSE [ret |-> at.user_id, expired |-> FALSE, table |-> table]

\* revoke_access_tokens_for_user that deletes nothing
revoke_access_tokens_for_user_none(table, user_id) == table

revoke_access_tokens_for_user(table, user_id) ==
    table \ RowsOfUser(table, user_id)

\* ------------------------------------------------------------------------
\* main.py handlers
\* ------------------------------------------------------------------------
Idle == [op |-> "idle", pc |-> "idle", user_id |-> None, token |-> None,
         access |-> None, pre |-> {}]

\* what a step leaves in "last": the operation, its HTTP status, the token
\* presented, the value the helper returned, and for a request that stopped
\* its position (pc), its account and the tokens stored before it began (pre);
\* found/removed are the rows a verification looked up and deleted
NoStep == [op |-> "step", status |-> 0, token |-> None, ret |-> None,
           user_id |-> None, pc |-> "idle", pre |-> {}, found |-> {},
           removed |-> {}]

UserIds == {u.id : u \in User}

\* a slot of "pending" that serves no register request; password holds the
\* password of the body as a sequence (of characters for routes.py, of the one
\* string for main.py)
NoRegister == [op |-> "idle", email |-> None, password |-> <<>>,
               role |-> None, organization_id |-> None]

\* the raw tokens a client can present: those handed out, and junk
Presentable == {RawToken(n) : n \in 0..ntok}

\* kind and hash of every token stored for an account
StoredFor(user_id) ==
    {<<"access", row.token_hash>> : row \in RowsOfUser(AccessToken, user_id)}
    \cup
    {<<"refresh", row.token_hash>> : row \in RowsOfUser(RefreshToken, user_id)}

\* a new request is served in the first free slot
Free(r) ==
    /\ req[r].op = "idle"
    /\ r = "r2" => req["r1"].op # "idle"

Init ==
    /\ User = {}
    /\ AccessToken = {}
    /\ RefreshToken = {}
    /\ now = 0
    /\ ticks = 0
    /\ ntok = 0
    /\ req = [r \in Reqs |-> Idle]
    /\ last = NoStep
    /\ refreshWins = {}
    /\ rotatedOut = {}
    /\ expiredSeen = {}
    /\ users = {}
    /\ refresh_tokens = {}
    /\ issued = {}
    /\ exchanged = {}
    /\ loggedOut = {}
    /\ pending = [r \in Reqs |-> NoRegister]
    /\ organizations = {}

Tick ==
    /\ ticks < MaxTicks
    /\ \E d \in Deltas : now' = now + d
    /\ ticks' = ticks + 1
    /\ last' = NoStep
    /\ UNCHANGED jwtVars /\ UNCHANGED <<User, AccessToken, RefreshToken, ntok, req, refreshWins,
                   rotatedOut, expiredSeen>>

\* POST /register
register ==
    \E email \in Emails, password \in {"Sup3rSecret!"} :
        LET existing == {u \in User : u.email = email}
        IN  /\ IF existing # {}
               THEN /\ last' = NoStep
                    /\ UNCHANGED User
               ELSE /\ User' = User \cup
                          {[id |-> ToString(Cardinality(User) + 1),
                            email |-> email,
                            password_hash |-> get_password_hash(password)]}
                    /\ last' = NoStep
            /\ UNCHANGED jwtVars /\ UNCHANGED <<AccessToken, RefreshToken, now, ticks, ntok, req,
                           refreshWins, rotatedOut, expiredSeen>>

\* POST /login, up to and including the commit of create_access_token
login_begin(r) ==
    /\ Free(r)
    /\ \E email \in Emails, password \in Passwords :
        LET found == {u \in User : u.email = email}
            user == First(found)
        IN  IF found = {} \/ ~verify_password(password, user.password_hash)
            THEN /\ last' = NoStep
                 /\ UNCHANGED jwtVars /\ UNCHANGED <<AccessToken, ntok, req>>
            ELSE /\ ntok < MaxTok
                 /\ ntok' = ntok + 1
                 /\ AccessToken' = create_access_token(AccessToken, user.id,
                                            RawToken(ntok + 1), now)
                 /\ req' = [req EXCEPT ![r] =
                        [Idle EXCEPT !.op = "login", !.pc = "at_created",
                                     !.user_id = user.id,
                                     !.access = RawToken(ntok + 1)]]
                 /\ last' = NoStep
    /\ UNCHANGED jwtVars /\ UNCHANGED <<User, RefreshToken, now, ticks, refreshWins, rotatedOut,
                   expiredSeen>>

\* POST /login, create_refresh_token and store_refresh_token, then the response
login_end(r) ==
    /\ req[r].op = "login" /\ req[r].pc = "at_created"
    /\ ntok < MaxTok
    /\ ntok' = ntok + 1
    /\ RefreshToken' = store_refresh_token(RefreshToken, req[r].user_id,
                               RawToken(ntok + 1), now + REFRESH_EXPIRE)
    /\ req' = [req EXCEPT ![r] = Idle]
    /\ last' = NoStep
    /\ UNCHANGED jwtVars /\ UNCHANGED <<User, AccessToken, now, ticks, refreshWins, rotatedOut,
                   expiredSeen>>

\* POST /refresh, verify_refresh_token and the 401 it may raise
refresh_verify(r) ==
    /\ Free(r)
    /\ \E user_id \in UserIds \cup {"0"}, token \in Presentable :
        LET v == verify_refresh_token(RefreshToken, user_id, token, now)
        IN  /\ RefreshToken' = v.table
            /\ IF ~v.ret
               THEN /\ req' = req
                    /\ last' = [NoStep EXCEPT !.op = "refresh", !.status = 401]
               ELSE /\ req' = [req EXCEPT ![r] =
                        [Idle EXCEPT !.op = "refresh", !.pc = "verified",
                                     !.user_id = user_id, !.token = token,
                                     !.pre = StoredFor(user_id)]]
                    /\ last' = NoStep
    /\ UNCHANGED jwtVars /\ UNCHANGED <<User, AccessToken, now, ticks, ntok, refreshWins,
                   rotatedOut, expiredSeen>>

\* POST /refresh, revoke_refresh_tokens_for_user
refresh_revoke_refresh(r) ==
    /\ req[r].op = "refresh" /\ req[r].pc = "verified"
    /\ RefreshToken' =
           revoke_refresh_tokens_for_user(RefreshToken, req[r].user_id)
    /\ req' = [req EXCEPT ![r].pc = "rt_revoked"]
    /\ last' = NoStep
    /\ UNCHANGED jwtVars /\ UNCHANGED <<User, AccessToken, now, ticks, ntok, refreshWins,
                   rotatedOut, expiredSeen>>

\* POST /refresh, revoke_access_tokens_for_user
refresh_revoke_access(r) ==
    /\ req[r].op = "refresh" /\ req[r].pc = "rt_revoked"
    /\ AccessToken' =
           revoke_access_tokens_for_user(AccessToken, req[r].user_id)
    /\ req' = [req EXCEPT ![r].pc = "at_revoked"]
    /\ last' = NoStep
    /\ UNCHANGED jwtVars /\ UNCHANGED <<User, RefreshToken, now, ticks, ntok, refreshWins,
                   rotatedOut, expiredSeen>>

\* POST /refresh, create_access_token
refresh_create_access(r) ==
    /\ req[r].op = "refresh" /\ req[r].pc = "at_revoked"
    /\ ntok < MaxTok
    /\ ntok' = ntok + 1
    /\ AccessToken' = create_access_token(AccessToken, req[r].user_id,
                               RawToken(ntok + 1), now)
    /\ req' = [req EXCEPT ![r].pc = "at_created",
                          ![r].access = RawToken(ntok + 1)]
    /\ last' = NoStep
    /\ UNCHANGED jwtVars /\ UNCHANGED <<User, RefreshToken, now, ticks, refreshWins, rotatedOut,
                   expiredSeen>>

\* POST /refresh, create_refresh_token and store_refresh_token, then the
\* response with the new pair
refresh_store_refresh(r) ==
    /\ req[r].op = "refresh" /\ req[r].pc = "at_created"
    /\ ntok < MaxTok
    /\ ntok' = ntok + 1
    /\ RefreshToken' = store_refresh_token(RefreshToken, req[r].user_id,
                               RawToken(ntok + 1), now + REFRESH_EXPIRE)
    /\ req' = [req EXCEPT ![r] = Idle]
    /\ last' = [NoStep EXCEPT !.op = "refresh", !.status = 200,
                              !.user_id = req[r].user_id,
                              !.token = req[r].token, !.pre = req[r].pre]
    /\ refreshWins' = refreshWins \cup
           {<<req[r].token,
              Cardinality({w \in refreshWins : w[1] = req[r].token}) + 1>>}
    /\ rotatedOut' = rotatedOut \cup req[r].pre
    /\ UNCHANGED jwtVars /\ UNCHANGED <<User, AccessToken, now, ticks, expiredSeen>>

\* a refresh request stops between two of its commits (the process dies, the
\* connection drops): nothing is rolled back, every helper has committed
crash(r) ==
    /\ req[r].op = "refresh"
    /\ req' = [req EXCEPT ![r] = Idle]
    /\ last' = [NoStep EXCEPT !.op = "crash", !.pc = req[r].pc,
                              !.user_id = req[r].user_id,
                              !.token = req[r].token, !.pre = req[r].pre]
    /\ UNCHANGED jwtVars /\ UNCHANGED <<User, AccessToken, RefreshToken, now, ticks, ntok,
                   refreshWins, rotatedOut, expiredSeen>>

\* get_current_user of main.py: the bearer dependency of GET /users/me
get_current_user_store ==
    \E token \in Presentable :
        LET v == verify_access_token(AccessToken, token, now)
            user == {u \in User : u.id = v.ret}
            looked == {row \in AccessToken : row.token_hash = <<"sha256", token>>}
        IN  /\ AccessToken' = v.table
            /\ expiredSeen' = expiredSeen \cup
                   {row.token_hash : row \in {x \in looked : x.expires_at < now}}
            /\ last' = [NoStep EXCEPT !.op = "get_current_user",
                          !.token = token, !.ret = v.ret,
                          !.status = IF v.ret = None \/ user = {}
                                     THEN 401 ELSE 200,
                          !.found = looked,
                          !.removed = AccessToken \ v.table]
            /\ UNCHANGED jwtVars /\ UNCHANGED <<User, RefreshToken, now, ticks, ntok, req,
                           refreshWins, rotatedOut>>

\* the store-backed service under concurrent requests and crashes
NextStore ==
    \/ register
    \/ \E r \in Reqs : login_begin(r)
    \/ \E r \in Reqs : login_end(r)
    \/ \E r \in Reqs : refresh_verify(r)
    \/ \E r \in Reqs : refresh_revoke_refresh(r)
    \/ \E r \in Reqs : refresh_revoke_access(r)
    \/ \E r \in Reqs : refresh_create_access(r)
    \/ \E r \in Reqs : refresh_store_refresh(r)
    \/ \E r \in Reqs : crash(r)

SpecStore == Init /\ [][NextStore]_vars

\* the store-backed service serving one request at a time, with bearer
\* verification
NextVerify ==
    \/ Tick
    \/ register
    \/ login_begin("r1")
    \/ login_end("r1")
    \/ refresh_verify("r1")
    \/ refresh_revoke_refresh("r1")
    \/ refresh_revoke_access("r1")
    \/ refresh_create_access("r1")
    \/ refresh_store_refresh("r1")
    \/ get_current_user_store

SpecVerify == Init /\ [][NextVerify]_vars

\* ------------------------------------------------------------------------
\* shared/utils/security.py
\* ------------------------------------------------------------------------
password_min_length == 8
access_token_expire_minutes == 30
refresh_token_expire_days == 7
jwt_secret_key == "change-me-in-production"

Uppercase == {"A", "B", "C", "D", "E", "F", "G", "H", "I", "J", "K", "L", "M",
              "N", "O", "P", "Q", "R", "S", "T", "U", "V", "W", "X", "Y", "Z"}
Lowercase == {"a", "b", "c", "d", "e", "f", "g", "h", "i", "j", "k", "l", "m",
              "n", "o", "p", "q", "r", "s", "t", "u", "v", "w", "x", "y", "z"}
Digits == {"0", "1", "2", "3", "4", "5", "6", "7", "8", "9"}

\* passwords are sequences of characters
Sup3rSecret == <<"S", "u", "p", "3", "r", "S", "e", "c", "r", "e", "t", "!">>
Weakpass == <<"p", "a", "s", "s", "w", "o", "r", "d">>
JwtPasswords == {Sup3rSecret, Weakpass}

hash_password(password) == <<"bcrypt", password>>

\* pwd_context.verify raises (UnknownHashError, or ValueError for a digest
\* of the bcrypt prefix that does not parse) on a digest that is not one
\* hash_password produces; verify_password of security.py catches nothing
verify_password_bcrypt_raises(hashed_password) ==
    ~(Len(hashed_password) = 2 /\ hashed_password[1] = "bcrypt")

\* pwd_context.verify, on the digests hash_password produces
verify_password_bcrypt(plain_password, hashed_password) ==
    hashed_password = <<"bcrypt", plain_password>>

\* validate_password_strength: is_valid of the returned pair
validate_password_strength(password) ==
    /\ ~(Len(password) < password_min_length)
    /\ \E i \in 1..Len(password) : password[i] \in Uppercase
    /\ \E i \in 1..Len(password) : password[i] \in Lowercase
    /\ \E i \in 1..Len(password) : password[i] \in Digits

\* jwt.encode: the payload under the signature of the key
jwt_encode(payload, key) == [payload |-> payload, sig |-> key]

\* create_access_token of security.py: the claims of data and exp
jwt_create_access_token(data, t) ==
    jwt_encode([sub |-> data.sub, email |-> data.email,
                organization_id |-> data.organization_id, role |-> data.role,
                is_active |-> data.is_active,
                exp |-> t + access_token_expire_minutes * 60,
                type |-> None],
               jwt_secret_key)

\* create_refresh_token of security.py: the claims of data, exp and type
jwt_create_refresh_token(data, t) ==
    jwt_encode([sub |-> data.sub, email |-> data.email,
                organization_id |-> data.organization_id, role |-> data.role,
                is_active |-> data.is_active,
                exp |-> t + refresh_token_expire_days * 86400,
                type |-> "refresh"],
               jwt_secret_key)

\* decode_token: is the token decoded (signature of the key, exp not passed);
\* a token that is not yields None
decode_token(token, t) ==
    /\ token.sig = jwt_secret_key
    /\ ~(token.payload.exp < t)

\* ------------------------------------------------------------------------
\* shared/middleware/auth.py
\* ------------------------------------------------------------------------
SUPER_ADMIN == "super_admin"
ORG_ADMIN == "org_admin"
USER == "user"
SUPPORT_AGENT == "support_agent"
BILLING_ADMIN == "billing_admin"
UserRole == {SUPER_ADMIN, ORG_ADMIN, USER, SUPPORT_AGENT, BILLING_ADMIN}

\* the privilege order the specification speaks of
Rank == [r \in {SUPER_ADMIN, ORG_ADMIN, USER} |->
            IF r = SUPER_ADMIN THEN "high" ELSE IF r = ORG_ADMIN THEN "mid"
            ELSE "low"]

Dominates(a, b) ==
    /\ a \in DOMAIN Rank /\ b \in DOMAIN Rank
    /\ \/ Rank[a] = "high" /\ Rank[b] \in {"mid", "low"}
       \/ Rank[a] = "mid" /\ Rank[b] = "low"

\* has_role that also lets a dominating role through
has_role_dominating(current_user, roles) ==
    \/ current_user.role \in roles
    \/ \E q \in roles : Dominates(current_user.role, q)

\* CurrentUser.has_role
has_role(current_user, roles) == current_user.role \in roles

\* CurrentUser.is_super_admin
\* is_super_admin that answers yes to every caller
is_super_admin_any(current_user) == TRUE

is_super_admin(current_user) == current_user.role = SUPER_ADMIN

\* CurrentUser.is_org_admin
is_org_admin(current_user) == current_user.role \in {SUPER_ADMIN, ORG_ADMIN}

NoUser == [user_id |-> None, email |-> None, organization_id |-> None,
           role |-> None, is_active |-> FALSE]

\* get_current_user of the shared middleware: the status, the detail of the
\* exception raised and the CurrentUser returned
get_current_user(token, t) ==
    IF ~decode_token(token, t)
    THEN [status |-> 401, detail |-> "Could not validate credentials",
          user |-> NoUser]
    ELSE IF token.payload.sub = None
    THEN [status |-> 401, detail |-> "Could not validate credentials",
          user |-> NoUser]
    ELSE IF ~token.payload.is_active
    THEN [status |-> 403, detail |-> "User account is inactive",
          user |-> NoUser]
    ELSE IF token.payload.role \notin UserRole
    THEN \* UserRole(role) raises ValueError, which nothing catches
         [status |-> 500, detail |-> "Internal Server Error", user |-> NoUser]
    ELSE [status |-> 200, detail |-> "",
          user |-> [user_id |-> token.payload.sub,
                    email |-> token.payload.email,
                    organization_id |-> token.payload.organization_id,
                    role |-> token.payload.role,
                    is_active |-> token.payload.is_active]]

\* get_optional_user of the shared middleware, for a header that carries a
\* bearer token: the CurrentUser returned, or nothing for None
get_optional_user(token, t) ==
    IF ~decode_token(token, t) THEN {}
    ELSE IF token.payload.sub = None THEN {}
    ELSE IF token.payload.role \notin UserRole
    THEN {}  \* the ValueError of UserRole(role) is caught: None
    ELSE {[user_id |-> token.payload.sub,
           email |-> token.payload.email,
           organization_id |-> token.payload.organization_id,
           role |-> token.payload.role,
           is_active |-> token.payload.is_active]}

\* role_checker of require_roles(*roles): the status and the detail
require_roles(roles, current_user) ==
    IF ~has_role(current_user, roles)
    THEN [status |-> 403, detail |-> "Insufficient permissions"]
    ELSE [status |-> 200, detail |-> ""]

require_super_admin(current_user) == require_roles({SUPER_ADMIN}, current_user)

\* require_org_admin that lists the organization admin only
require_org_admin_only(current_user) ==
    require_roles({ORG_ADMIN}, current_user)

require_org_admin(current_user) ==
    require_roles({SUPER_ADMIN, ORG_ADMIN}, current_user)

\* ------------------------------------------------------------------------
\* shared/middleware/tenant.py
\* ------------------------------------------------------------------------
\* get_tenant_context
get_tenant_context(current_user) ==
    [organization_id |-> current_user.organization_id, user |-> current_user]

\* verify_access without the early return for a resource of no organization
verify_access_strict(ctx, resource_org_id) ==
    IF is_super_admin(ctx.user) THEN [status |-> 200, detail |-> ""]
    ELSE IF resource_org_id # ctx.organization_id
    THEN [status |-> 403,
          detail |-> "Access denied to resource from different organization"]
    ELSE [status |-> 200, detail |-> ""]

\* TenantContext.verify_access: the status (200 when it returns)
verify_access(ctx, resource_org_id) ==
    IF resource_org_id = None THEN [status |-> 200, detail |-> ""]
    ELSE IF is_super_admin(ctx.user) THEN [status |-> 200, detail |-> ""]
    ELSE IF resource_org_id # ctx.organization_id
    THEN [status |-> 403,
          detail |-> "Access denied to resource from different organization"]
    ELSE [status |-> 200, detail |-> ""]

\* apply_tenant_filter that returns the query as it came
apply_tenant_filter_none(ctx, query) == query

\* TenantContext.apply_tenant_filter: the rows the returned query yields
apply_tenant_filter(ctx, query) ==
    IF is_super_admin(ctx.user) THEN query
    ELSE {row \in query : row.organization_id = ctx.organization_id}

\* ------------------------------------------------------------------------
\* routes.py handlers (JWT service)
\* ------------------------------------------------------------------------
\* an optional field of a request body: {} when absent, {v} when set to v
Optional(S) == {{}} \cup {{v} : v \in S}

\* the rows of a tenant-owned table: two organizations, and a row without one
Resources == {[id |-> 1, organization_id |-> "acme"],
              [id |-> 2, organization_id |-> "globex"],
              [id |-> 3, organization_id |-> None]}

\* a token signed with another key
Forged == jwt_encode([sub |-> "1", email |-> "mallory@example.com",
                      organization_id |-> "acme", role |-> SUPER_ADMIN,
                      is_active |-> TRUE, exp |-> 0, type |-> None],
                     "guessed-key")

\* what a step of the JWT service leaves in "last": the response (status,
\* detail, and body: the tokens of the response, each under its field name),
\* the token presented, and what the handler saw: the caller, the branch that
\* answered (cause), whether the refresh token presented had been exchanged
\* before (replay), the email of a register request, the id of the path
\* (target), the request body or its passwords, each under its field name
\* (request)
JwtStep == [op |-> "step", status |-> 0, detail |-> "", user |-> NoUser,
            token |-> Forged, dep |-> None, roles |-> {},
            resource_org_id |-> None,
            query |-> {}, rows |-> {},
            cause |-> None, replay |-> FALSE, body |-> {}, email |-> None,
            target |-> None, request |-> {}]

InitJwt ==
    /\ User = {}
    /\ AccessToken = {}
    /\ RefreshToken = {}
    /\ now = 0
    /\ ticks = 0
    /\ ntok = 0
    /\ req = [r \in Reqs |-> Idle]
    /\ last = JwtStep
    /\ refreshWins = {}
    /\ rotatedOut = {}
    /\ expiredSeen = {}
    /\ users = {}
    /\ refresh_tokens = {}
    /\ issued = {}
    /\ exchanged = {}
    /\ loggedOut = {}
    /\ pending = [r \in Reqs |-> NoRegister]
    /\ organizations = {}

\* what a route that serves accounts and bearer callers leaves alone: the
\* store-backed service, the session histories and the registers in flight
UNCHANGED_store == UNCHANGED <<User, AccessToken, RefreshToken, ntok, req,
                               refreshWins, rotatedOut, expiredSeen,
                               exchanged, loggedOut, pending, organizations>>

\* POST /register, with the role of the request body drawn from roles
register_jwt(roles) ==
    \E email \in JwtEmails, password \in JwtPasswords, role \in roles,
       organization_id \in Orgs :
        /\ IF \E u \in users : u.email = email
           THEN /\ last' = [JwtStep EXCEPT !.op = "register_jwt",
                                    !.request = {<<"password", password>>},
                                    !.status = 400, !.email = email,
                                    !.detail = "Email already registered"]
                /\ UNCHANGED users
           ELSE IF ~validate_password_strength(password)
           THEN /\ last' = [JwtStep EXCEPT !.op = "register_jwt",
                                    !.request = {<<"password", password>>},
                                    !.status = 400, !.email = email,
                                    !.detail = "Password too weak"]
                /\ UNCHANGED users
           ELSE /\ users' = users \cup
                      {[id |-> ToString(Cardinality(users) + 1),
                        email |-> email,
                        password_hash |-> hash_password(password),
                        role |-> role, organization_id |-> organization_id,
                        is_active |-> TRUE,
                        first_name |-> "Ann", last_name |-> "Lee"]}
                /\ last' = [JwtStep EXCEPT !.op = "register_jwt",
                                    !.request = {<<"password", password>>},
                                    !.status = 201, !.email = email]
        /\ UNCHANGED <<refresh_tokens, issued, now, ticks>>
        /\ UNCHANGED_store

\* token_data of login and refresh_token
token_data(user) ==
    [sub |-> user.id, email |-> user.email,
     organization_id |-> user.organization_id, role |-> user.role,
     is_active |-> user.is_active]

\* login that tells an email that is not registered from a wrong password
login_jwt_hint ==
    \E email \in JwtEmails, password \in JwtPasswords :
        LET found == {u \in users : u.email = email}
            user == First(found)
            step == [JwtStep EXCEPT !.op = "login_jwt", !.email = email]
        IN  /\ IF found # {} /\ verify_password_bcrypt_raises(user.password_hash)
               THEN /\ last' = [step EXCEPT !.status = 500,
                                    !.detail = "Internal Server Error",
                                    !.cause = "UnknownHashError"]
                    /\ UNCHANGED <<refresh_tokens, issued>>
               ELSE IF found = {}
               THEN /\ last' = [step EXCEPT !.status = 404,
                                    !.detail = "User not found",
                                    !.cause = "unknown_email"]
                    /\ UNCHANGED <<refresh_tokens, issued>>
               ELSE IF ~verify_password_bcrypt(password, user.password_hash)
               THEN /\ last' = [step EXCEPT !.status = 401,
                                    !.detail = "Incorrect email or password",
                                    !.cause = IF found = {}
                                              THEN "unknown_email"
                                              ELSE "wrong_password"]
                    /\ UNCHANGED <<refresh_tokens, issued>>
               ELSE IF ~user.is_active
               THEN /\ last' = [step EXCEPT !.status = 403,
                                    !.detail = "Account is inactive",
                                    !.cause = "inactive"]
                    /\ UNCHANGED <<refresh_tokens, issued>>
               ELSE LET access_token ==
                            jwt_create_access_token(token_data(user), now)
                        new_refresh_token ==
                            jwt_create_refresh_token(token_data(user), now)
                    IN  IF \E row \in refresh_tokens :
                               row.token = new_refresh_token
                        THEN \* refresh_tokens.token is unique: the commit
                             \* raises IntegrityError
                             /\ last' = [step EXCEPT !.status = 500,
                                            !.detail = "Internal Server Error",
                                            !.cause = "IntegrityError"]
                             /\ UNCHANGED <<refresh_tokens, issued>>
                        ELSE /\ Cardinality(refresh_tokens) < MaxLogins
                             /\ refresh_tokens' = refresh_tokens \cup
                                   {[user_id |-> user.id,
                                     token |-> new_refresh_token,
                                     expires_at |->
                                       now + refresh_token_expire_days * 86400,
                                     is_revoked |-> FALSE, revoked_at |-> {}]}
                             /\ issued' = issued \cup
                                    {access_token, new_refresh_token}
                             /\ last' = [step EXCEPT !.status = 200,
                                     !.body =
                                       {<<"access_token", access_token>>,
                                        <<"refresh_token", new_refresh_token>>}]
            /\ UNCHANGED <<users, now, ticks>>
            /\ UNCHANGED_store

\* POST /login
login_jwt ==
    \E email \in JwtEmails, password \in JwtPasswords :
        LET found == {u \in users : u.email = email}
            user == First(found)
            step == [JwtStep EXCEPT !.op = "login_jwt", !.email = email]
        IN  /\ IF found # {} /\ verify_password_bcrypt_raises(user.password_hash)
               THEN \* the exception of verify_password leaves the handler
                    /\ last' = [step EXCEPT !.status = 500,
                                    !.detail = "Internal Server Error",
                                    !.cause = "UnknownHashError"]
                    /\ UNCHANGED <<refresh_tokens, issued>>
               ELSE IF found = {}
                  \/ ~verify_password_bcrypt(password, user.password_hash)
               THEN /\ last' = [step EXCEPT !.status = 401,
                                    !.detail = "Incorrect email or password",
                                    !.cause = IF found = {}
                                              THEN "unknown_email"
                                              ELSE "wrong_password"]
                    /\ UNCHANGED <<refresh_tokens, issued>>
               ELSE IF ~user.is_active
               THEN /\ last' = [step EXCEPT !.status = 403,
                                    !.detail = "Account is inactive",
                                    !.cause = "inactive"]
                    /\ UNCHANGED <<refresh_tokens, issued>>
               ELSE LET access_token ==
                            jwt_create_access_token(token_data(user), now)
                        new_refresh_token ==
                            jwt_create_refresh_token(token_data(user), now)
                    IN  IF \E row \in refresh_tokens :
                               row.token = new_refresh_token
                        THEN \* refresh_tokens.token is unique: the commit
                             \* raises IntegrityError
                             /\ last' = [step EXCEPT !.status = 500,
                                            !.detail = "Internal Server Error",
                                            !.cause = "IntegrityError"]
                             /\ UNCHANGED <<refresh_tokens, issued>>
                        ELSE /\ Cardinality(refresh_tokens) < MaxLogins
                             /\ refresh_tokens' = refresh_tokens \cup
                                   {[user_id |-> user.id,
                                     token |-> new_refresh_token,
                                     expires_at |->
                                       now + refresh_token_expire_days * 86400,
                                     is_revoked |-> FALSE, revoked_at |-> {}]}
                             /\ issued' = issued \cup
                                    {access_token, new_refresh_token}
                             /\ last' = [step EXCEPT !.status = 200,
                                     !.body =
                                       {<<"access_token", access_token>>,
                                        <<"refresh_token", new_refresh_token>>}]
            /\ UNCHANGED <<users, now, ticks>>
            /\ UNCHANGED_store

\* the bearer tokens a client can present: those handed out, and a forged one
Bearer == issued \cup {Forged}

\* GET /me (get_current_user_info)
get_current_user_info ==
    \E token \in Bearer :
        LET cu == get_current_user(token, now)
        IN  /\ last' =
                 IF cu.status # 200
                 THEN [JwtStep EXCEPT !.op = "get_current_user_info",
                          !.token = token, !.status = cu.status,
                          !.detail = cu.detail]
                 ELSE IF ~\E u \in users : u.id = cu.user.user_id
                 THEN [JwtStep EXCEPT !.op = "get_current_user_info",
                          !.token = token, !.status = 404,
                          !.detail = "User not found"]
                 ELSE [JwtStep EXCEPT !.op = "get_current_user_info",
                          !.token = token, !.status = 200, !.user = cu.user]
            /\ UNCHANGED jwtVars
            /\ UNCHANGED <<now, ticks>>
            /\ UNCHANGED_store

\* POST /refresh (refresh_token of routes.py)
refresh_token ==
    \E token \in Bearer :
        LET found == {row \in refresh_tokens :
                         row.token = token /\ ~row.is_revoked}
            refresh_token_obj == First(found)
            owner == {u \in users : u.id = refresh_token_obj.user_id}
            user == First(owner)
            access_token == jwt_create_access_token(token_data(user), now)
            step == [JwtStep EXCEPT !.op = "refresh_token", !.token = token,
                                    !.replay = token \in exchanged]
        IN  /\ IF found = {}
               THEN /\ last' = [step EXCEPT !.status = 401,
                                    !.detail = "Invalid refresh token",
                                    !.cause = "unknown"]
                    /\ UNCHANGED <<issued, exchanged>>
               ELSE IF refresh_token_obj.expires_at < now
               THEN /\ last' = [step EXCEPT !.status = 401,
                                    !.detail = "Refresh token expired",
                                    !.cause = "expired"]
                    /\ UNCHANGED <<issued, exchanged>>
               ELSE IF owner = {} \/ ~user.is_active
               THEN /\ last' = [step EXCEPT !.status = 401,
                                    !.detail = "User not found or inactive",
                                    !.cause = "inactive"]
                    /\ UNCHANGED <<issued, exchanged>>
               ELSE /\ issued' = issued \cup {access_token}
                    /\ exchanged' = exchanged \cup {token}
                    /\ last' = [step EXCEPT !.status = 200,
                                    !.body = {<<"access_token", access_token>>}]
            /\ UNCHANGED <<users, refresh_tokens, loggedOut, pending, now, ticks,
                           organizations>>
            /\ UNCHANGED <<User, AccessToken, RefreshToken, ntok, req,
                           refreshWins, rotatedOut, expiredSeen>>

\* logout that answers without revoking the row it found
logout_keep ==
    \E token \in Bearer, presented \in Bearer :
        LET cu == get_current_user(token, now)
        IN  /\ IF cu.status # 200
               THEN /\ last' = [JwtStep EXCEPT !.op = "logout",
                                  !.request = {<<"refresh_token", presented>>},
                                  !.token = token,
                                  !.status = cu.status, !.detail = cu.detail]
                    /\ UNCHANGED loggedOut
               ELSE /\ loggedOut' = loggedOut \cup
                          {row.token : row \in
                              {x \in refresh_tokens :
                                  /\ x.token = presented
                                  /\ x.user_id = cu.user.user_id}}
                    /\ last' = [JwtStep EXCEPT !.op = "logout",
                                  !.request = {<<"refresh_token", presented>>},
                                  !.token = token, !.status = 200,
                                  !.detail = "Logged out successfully",
                                  !.user = cu.user]
            /\ UNCHANGED <<users, refresh_tokens, issued, exchanged, pending, organizations,
                           now, ticks>>
            /\ UNCHANGED <<User, AccessToken, RefreshToken, ntok, req,
                           refreshWins, rotatedOut, expiredSeen>>

\* logout that looks the row up by the token alone
logout_any ==
    \E token \in Bearer, presented \in Bearer :
        LET cu == get_current_user(token, now)
            found == {row \in refresh_tokens :
                         /\ row.token = presented}
            refresh_token_obj == First(found)
        IN  /\ IF cu.status # 200
               THEN /\ last' = [JwtStep EXCEPT !.op = "logout",
                                  !.request = {<<"refresh_token", presented>>},
                                  !.token = token,
                                  !.status = cu.status, !.detail = cu.detail]
                    /\ UNCHANGED <<refresh_tokens, loggedOut>>
               ELSE /\ refresh_tokens' =
                          IF found = {} THEN refresh_tokens
                          ELSE (refresh_tokens \ {refresh_token_obj}) \cup
                               {[refresh_token_obj EXCEPT
                                    !.is_revoked = TRUE, !.revoked_at = {now}]}
                    /\ loggedOut' = loggedOut \cup
                          {row.token : row \in found}
                    /\ last' = [JwtStep EXCEPT !.op = "logout",
                                  !.request = {<<"refresh_token", presented>>},
                                  !.token = token, !.status = 200,
                                  !.detail = "Logged out successfully",
                                  !.user = cu.user]
            /\ UNCHANGED <<users, issued, exchanged, pending, now, ticks,
                           organizations>>
            /\ UNCHANGED <<User, AccessToken, RefreshToken, ntok, req,
                           refreshWins, rotatedOut, expiredSeen>>

\* POST /logout: the bearer token of the caller and, in the body, the refresh
\* token to revoke
logout ==
    \E token \in Bearer, presented \in Bearer :
        LET cu == get_current_user(token, now)
            found == {row \in refresh_tokens :
                         /\ row.token = presented
                         /\ row.user_id = cu.user.user_id}
            refresh_token_obj == First(found)
        IN  /\ IF cu.status # 200
               THEN /\ last' = [JwtStep EXCEPT !.op = "logout",
                                  !.request = {<<"refresh_token", presented>>},
                                  !.token = token,
                                  !.status = cu.status, !.detail = cu.detail]
                    /\ UNCHANGED <<refresh_tokens, loggedOut>>
               ELSE /\ refresh_tokens' =
                          IF found = {} THEN refresh_tokens
                          ELSE (refresh_tokens \ {refresh_token_obj}) \cup
                               {[refresh_token_obj EXCEPT
                                    !.is_revoked = TRUE, !.revoked_at = {now}]}
                    /\ loggedOut' = loggedOut \cup
                          {row.token : row \in found}
                    /\ last' = [JwtStep EXCEPT !.op = "logout",
                                  !.request = {<<"refresh_token", presented>>},
                                  !.token = token, !.status = 200,
                                  !.detail = "Logged out successfully",
                                  !.user = cu.user]
            /\ UNCHANGED <<users, issued, exchanged, pending, now, ticks,
                           organizations>>
            /\ UNCHANGED <<User, AccessToken, RefreshToken, ntok, req,
                           refreshWins, rotatedOut, expiredSeen>>

\* the clock of the JWT service advances
TickJwt ==
    /\ ticks < MaxTicks
    /\ \E d \in Deltas : now' = now + d
    /\ ticks' = ticks + 1
    /\ last' = JwtStep
    /\ UNCHANGED jwtVars
    /\ UNCHANGED <<User, AccessToken, RefreshToken, ntok, req, refreshWins,
                   rotatedOut, expiredSeen>>

\* PUT /users/{user_id} (update_user), with the role of the request body
\* drawn from roles and its first_name and last_name from names
update_user(roles, names) ==
    \E token \in Bearer, user_id \in {u.id : u \in users} \cup {"0"},
       upd_is_active \in Optional(BOOLEAN), upd_role \in Optional(roles),
       upd_first_name \in Optional(names), upd_last_name \in Optional(names) :
        LET cu == get_current_user(token, now)
            step == [JwtStep EXCEPT !.op = "update_user", !.token = token,
                                    !.target = user_id]
            guard == require_org_admin(cu.user)
            found == {u \in users : u.id = user_id}
            user == First(found)
        IN  /\ IF cu.status # 200
               THEN /\ last' = [step EXCEPT !.status = cu.status, !.detail = cu.detail]
                    /\ UNCHANGED users
               ELSE IF guard.status # 200
               THEN /\ last' = [step EXCEPT !.status = 403, !.detail = guard.detail]
                    /\ UNCHANGED users
               ELSE IF found = {}
               THEN /\ last' = [step EXCEPT !.status = 404, !.detail = "User not found"]
                    /\ UNCHANGED users
               ELSE IF ~is_super_admin(cu.user)
                       /\ user.organization_id # cu.user.organization_id
               THEN /\ last' = [step EXCEPT !.status = 403, !.detail = "Access denied"]
                    /\ UNCHANGED users
               ELSE /\ users' = (users \ {user}) \cup
                          {[user EXCEPT
                              !.first_name = IF upd_first_name # {}
                                             THEN CHOOSE b \in upd_first_name : TRUE
                                             ELSE @,
                              !.last_name = IF upd_last_name # {}
                                            THEN CHOOSE b \in upd_last_name : TRUE
                                            ELSE @,
                              !.is_active = IF upd_is_active # {}
                                            THEN CHOOSE b \in upd_is_active : TRUE
                                            ELSE @,
                              !.role = IF upd_role # {}
                                       THEN CHOOSE b \in upd_role : TRUE
                                       ELSE @]}
                    /\ last' = [step EXCEPT !.status = 200, !.user = cu.user]
            /\ UNCHANGED <<refresh_tokens, issued, now, ticks>>
            /\ UNCHANGED_store

\* get_user without the comparison of the organizations
get_user_open ==
    \E token \in Bearer, user_id \in {u.id : u \in users} \cup {"0"} :
        LET cu == get_current_user(token, now)
            guard == require_org_admin(cu.user)
            found == {u \in users : u.id = user_id}
            user == First(found)
            step == [JwtStep EXCEPT !.op = "get_user", !.token = token,
                                    !.target = user_id]
        IN  /\ last' =
                 IF cu.status # 200
                 THEN [step EXCEPT !.status = cu.status, !.detail = cu.detail]
                 ELSE IF guard.status # 200
                 THEN [step EXCEPT !.status = 403, !.detail = guard.detail]
                 ELSE IF found = {}
                 THEN [step EXCEPT !.status = 404, !.detail = "User not found"]
                 ELSE [step EXCEPT !.status = 200, !.user = cu.user,
                                   !.body = {<<"user", user>>}]
            /\ UNCHANGED jwtVars
            /\ UNCHANGED <<now, ticks>>
            /\ UNCHANGED_store

\* the first_name and last_name a profile update can carry
Names == {"Zed"}

\* update_current_user that assigns every field of UserUpdate
update_current_user_all ==
    \E token \in Bearer,
       upd_first_name \in Optional(Names), upd_last_name \in Optional(Names),
       upd_is_active \in Optional({FALSE}), upd_role \in Optional({SUPER_ADMIN}) :
        LET cu == get_current_user(token, now)
            found == {u \in users : u.id = cu.user.user_id}
            user == First(found)
            step == [JwtStep EXCEPT !.op = "update_current_user",
                                    !.token = token]
        IN  /\ IF cu.status # 200
               THEN /\ last' = [step EXCEPT !.status = cu.status,
                                            !.detail = cu.detail]
                    /\ UNCHANGED users
               ELSE IF found = {}
               THEN /\ last' = [step EXCEPT !.status = 404, !.user = cu.user,
                                            !.detail = "User not found"]
                    /\ UNCHANGED users
               ELSE /\ users' = (users \ {user}) \cup
                          {[user EXCEPT
                              !.first_name = IF upd_first_name # {}
                                             THEN CHOOSE b \in upd_first_name : TRUE
                                             ELSE @,
                              !.last_name = IF upd_last_name # {}
                                            THEN CHOOSE b \in upd_last_name : TRUE
                                            ELSE @,
                              !.is_active = IF upd_is_active # {}
                                            THEN CHOOSE b \in upd_is_active : TRUE
                                            ELSE @,
                              !.role = IF upd_role # {}
                                       THEN CHOOSE b \in upd_role : TRUE
                                       ELSE @]}
                    /\ last' = [step EXCEPT !.status = 200, !.user = cu.user]
            /\ UNCHANGED <<refresh_tokens, issued, now, ticks>>
            /\ UNCHANGED_store

\* PUT /me (update_current_user): UserUpdate carries first_name, last_name,
\* is_active and role, the handler reads the first two
update_current_user ==
    \E token \in Bearer,
       upd_first_name \in Optional(Names), upd_last_name \in Optional(Names),
       upd_is_active \in Optional({FALSE}), upd_role \in Optional({SUPER_ADMIN}) :
        LET cu == get_current_user(token, now)
            found == {u \in users : u.id = cu.user.user_id}
            user == First(found)
            step == [JwtStep EXCEPT !.op = "update_current_user",
                                    !.token = token]
        IN  /\ IF cu.status # 200
               THEN /\ last' = [step EXCEPT !.status = cu.status,
                                            !.detail = cu.detail]
                    /\ UNCHANGED users
               ELSE IF found = {}
               THEN /\ last' = [step EXCEPT !.status = 404, !.user = cu.user,
                                            !.detail = "User not found"]
                    /\ UNCHANGED users
               ELSE /\ users' = (users \ {user}) \cup
                          {[user EXCEPT
                              !.first_name = IF upd_first_name # {}
                                             THEN CHOOSE b \in upd_first_name : TRUE
                                             ELSE @,
                              !.last_name = IF upd_last_name # {}
                                            THEN CHOOSE b \in upd_last_name : TRUE
                                            ELSE @]}
                    /\ last' = [step EXCEPT !.status = 200, !.user = cu.user]
            /\ UNCHANGED <<refresh_tokens, issued, now, ticks>>
            /\ UNCHANGED_store

\* a second password that passes validate_password_strength
N3wSecret == <<"N", "3", "w", "S", "e", "c", "r", "e", "t", "!">>
ChangePasswords == JwtPasswords \cup {N3wSecret}

\* change_password that validates the new password after the assignment
change_password_late ==
    \E token \in Bearer, old_password \in ChangePasswords,
       new_password \in ChangePasswords :
        LET cu == get_current_user(token, now)
            found == {u \in users : u.id = cu.user.user_id}
            user == First(found)
            step == [JwtStep EXCEPT !.op = "change_password",
                        !.token = token,
                        !.request = {<<"old_password", old_password>>,
                                     <<"new_password", new_password>>}]
        IN  /\ IF cu.status # 200
               THEN /\ last' = [step EXCEPT !.status = cu.status,
                                            !.detail = cu.detail]
                    /\ UNCHANGED users
               ELSE IF found = {}
               THEN /\ last' = [step EXCEPT !.status = 404, !.user = cu.user,
                                            !.detail = "User not found"]
                    /\ UNCHANGED users
               ELSE IF verify_password_bcrypt_raises(user.password_hash)
               THEN /\ last' = [step EXCEPT !.status = 500, !.user = cu.user,
                                    !.detail = "Internal Server Error",
                                    !.cause = "UnknownHashError"]
                    /\ UNCHANGED users
               ELSE IF ~verify_password_bcrypt(old_password, user.password_hash)
               THEN /\ last' = [step EXCEPT !.status = 400, !.user = cu.user,
                                            !.detail = "Incorrect password"]
                    /\ UNCHANGED users
               ELSE /\ users' = (users \ {user}) \cup
                          {[user EXCEPT !.password_hash =
                                            hash_password(new_password)]}
                    /\ last' =
                         IF ~validate_password_strength(new_password)
                         THEN [step EXCEPT !.status = 400, !.user = cu.user,
                                  !.detail = "Password too weak",
                                  !.cause = "validate_password_strength"]
                         ELSE [step EXCEPT !.status = 200, !.user = cu.user,
                                  !.detail = "Password changed successfully"]
            /\ UNCHANGED <<refresh_tokens, issued, now, ticks>>
            /\ UNCHANGED_store

\* POST /change-password (change_password)
change_password ==
    \E token \in Bearer, old_password \in ChangePasswords,
       new_password \in ChangePasswords :
        LET cu == get_current_user(token, now)
            found == {u \in users : u.id = cu.user.user_id}
            user == First(found)
            step == [JwtStep EXCEPT !.op = "change_password",
                        !.token = token,
                        !.request = {<<"old_password", old_password>>,
                                     <<"new_password", new_password>>}]
        IN  /\ IF cu.status # 200
               THEN /\ last' = [step EXCEPT !.status = cu.status,
                                            !.detail = cu.detail]
                    /\ UNCHANGED users
               ELSE IF found = {}
               THEN /\ last' = [step EXCEPT !.status = 404, !.user = cu.user,
                                            !.detail = "User not found"]
                    /\ UNCHANGED users
               ELSE IF verify_password_bcrypt_raises(user.password_hash)
               THEN /\ last' = [step EXCEPT !.status = 500, !.user = cu.user,
                                    !.detail = "Internal Server Error",
                                    !.cause = "UnknownHashError"]
                    /\ UNCHANGED users
               ELSE IF ~verify_password_bcrypt(old_password, user.password_hash)
               THEN /\ last' = [step EXCEPT !.status = 400, !.user = cu.user,
                                            !.detail = "Incorrect password"]
                    /\ UNCHANGED users
               ELSE IF ~validate_password_strength(new_password)
               THEN /\ last' = [step EXCEPT !.status = 400, !.user = cu.user,
                                    !.detail = "Password too weak",
                                    !.cause = "validate_password_strength"]
                    /\ UNCHANGED users
               ELSE /\ users' = (users \ {user}) \cup
                          {[user EXCEPT !.password_hash =
                                            hash_password(new_password)]}
                    /\ last' = [step EXCEPT !.status = 200, !.user = cu.user,
                                    !.detail = "Password changed successfully"]
            /\ UNCHANGED <<refresh_tokens, issued, now, ticks>>
            /\ UNCHANGED_store

\* GET /users/{user_id} (get_user)
get_user ==
    \E token \in Bearer, user_id \in {u.id : u \in users} \cup {"0"} :
        LET cu == get_current_user(token, now)
            guard == require_org_admin(cu.user)
            found == {u \in users : u.id = user_id}
            user == First(found)
            step == [JwtStep EXCEPT !.op = "get_user", !.token = token,
                                    !.target = user_id]
        IN  /\ last' =
                 IF cu.status # 200
                 THEN [step EXCEPT !.status = cu.status, !.detail = cu.detail]
                 ELSE IF guard.status # 200
                 THEN [step EXCEPT !.status = 403, !.detail = guard.detail]
                 ELSE IF found = {}
                 THEN [step EXCEPT !.status = 404, !.detail = "User not found"]
                 ELSE IF ~is_super_admin(cu.user)
                         /\ user.organization_id # cu.user.organization_id
                 THEN [step EXCEPT !.status = 403, !.detail = "Access denied"]
                 ELSE [step EXCEPT !.status = 200, !.user = cu.user,
                                   !.body = {<<"user", user>>}]
            /\ UNCHANGED jwtVars
            /\ UNCHANGED <<now, ticks>>
            /\ UNCHANGED_store

\* the role dependencies a route can declare: require_org_admin(),
\* require_super_admin() and require_roles(role) of one role
Dependencies ==
    {[name |-> "require_org_admin", roles |-> {SUPER_ADMIN, ORG_ADMIN}],
     [name |-> "require_super_admin", roles |-> {SUPER_ADMIN}]}
    \cup {[name |-> "require_roles", roles |-> {r}] : r \in UserRole}

\* the role_checker the dependency returns, applied to current_user
Depends(dep, current_user) ==
    IF dep.name = "require_org_admin" THEN require_org_admin(current_user)
    ELSE IF dep.name = "require_super_admin"
    THEN require_super_admin(current_user)
    ELSE require_roles(dep.roles, current_user)

\* a route guarded by a role dependency
role_checker ==
    \E token \in Bearer, dep \in Dependencies :
        LET cu == get_current_user(token, now)
            guard == Depends(dep, cu.user)
        IN  /\ last' =
                 IF cu.status # 200
                 THEN [JwtStep EXCEPT !.op = "role_checker",
                          !.dep = dep.name, !.roles = dep.roles,
                          !.status = cu.status, !.detail = cu.detail]
                 ELSE [JwtStep EXCEPT !.op = "role_checker",
                          !.dep = dep.name, !.roles = dep.roles,
                          !.status = guard.status, !.detail = guard.detail,
                          !.user = cu.user]
            /\ UNCHANGED jwtVars
            /\ UNCHANGED <<now, ticks>>
            /\ UNCHANGED_store

\* a route that fetches one resource by id and calls
\* Depends(get_tenant_context).verify_access(resource.organization_id)
tenant_verify_access ==
    \E token \in Bearer, resource \in Resources :
        LET cu == get_current_user(token, now)
            ctx == get_tenant_context(cu.user)
            v == verify_access(ctx, resource.organization_id)
        IN  /\ last' =
                 IF cu.status # 200
                 THEN [JwtStep EXCEPT !.op = "verify_access",
                          !.status = cu.status, !.detail = cu.detail]
                 ELSE [JwtStep EXCEPT !.op = "verify_access",
                          !.status = v.status, !.detail = v.detail,
                          !.user = cu.user,
                          !.resource_org_id = resource.organization_id]
            /\ UNCHANGED jwtVars
            /\ UNCHANGED <<now, ticks>>
            /\ UNCHANGED_store

\* a route that lists a table through
\* Depends(get_tenant_context).apply_tenant_filter(query)
tenant_apply_filter ==
    \E token \in Bearer, query \in SUBSET Resources :
        LET cu == get_current_user(token, now)
            ctx == get_tenant_context(cu.user)
        IN  /\ last' =
                 IF cu.status # 200
                 THEN [JwtStep EXCEPT !.op = "apply_tenant_filter",
                          !.status = cu.status, !.detail = cu.detail]
                 ELSE [JwtStep EXCEPT !.op = "apply_tenant_filter",
                          !.status = 200, !.user = cu.user, !.query = query,
                          !.rows = apply_tenant_filter(ctx, query)]
            /\ UNCHANGED jwtVars
            /\ UNCHANGED <<now, ticks>>
            /\ UNCHANGED_store

\* ------------------------------------------------------------------------
\* services/tenancy/app/routes.py
\* ------------------------------------------------------------------------
\* a row of organizations as create_organization leaves it with the defaults
\* of OrganizationCreate; the id is what accounts carry as organization_id
Organization(id) ==
    [id |-> id, name |-> id, domain |-> None, plan |-> "free",
     is_active |-> TRUE, max_users |-> 5, max_api_keys |-> 10,
     settings |-> "{}"]

\* the fields of OrganizationUpdate every org admin may set, and those
\* update_organization keeps for the super admin
OpenFields == [name : Optional({"Acme Ltd"}),
               domain : Optional({"acme.example.com"}),
               settings : Optional({"{sso: true}"})]
AdminFields == [plan : Optional({"enterprise"}),
                is_active : Optional({FALSE}),
                max_users : Optional({500}),
                max_api_keys : Optional({1000})]

Absent(fields) == \A f \in DOMAIN fields : fields[f] = {}
Present(fields) == \A f \in DOMAIN fields : fields[f] # {}

\* the request bodies of PUT /organizations/{org_id}: each group of fields
\* absent or set, and each field of a group set alone
OrganizationUpdate ==
    {[open |-> o, admin |-> a] :
        o \in {x \in OpenFields : Absent(x) \/ Present(x)},
        a \in {x \in AdminFields : Absent(x) \/ Present(x)}}

\* "if org_update.f is not None: org.f = org_update.f"
Assign(old, field) == IF field # {} THEN CHOOSE v \in field : TRUE ELSE old

\* GET /organizations/{org_id} (get_organization)
get_organization ==
    \E token \in Bearer, org_id \in Orgs \cup {"0"} :
        LET cu == get_current_user(token, now)
            found == {o \in organizations : o.id = org_id}
            org == First(found)
            step == [JwtStep EXCEPT !.op = "get_organization",
                                    !.token = token, !.target = org_id]
        IN  /\ last' =
                 IF cu.status # 200
                 THEN [step EXCEPT !.status = cu.status, !.detail = cu.detail]
                 ELSE IF found = {}
                 THEN [step EXCEPT !.status = 404, !.user = cu.user,
                                   !.detail = "Organization not found"]
                 ELSE IF ~is_super_admin(cu.user)
                         /\ org.id # cu.user.organization_id
                 THEN [step EXCEPT !.status = 403, !.user = cu.user,
                                   !.detail = "Access denied"]
                 ELSE [step EXCEPT !.status = 200, !.user = cu.user,
                                   !.body = {<<"organization", org>>}]
            /\ UNCHANGED jwtVars
            /\ UNCHANGED <<now, ticks>>
            /\ UNCHANGED_store

\* the body that sets every field
FullUpdate == {b \in OrganizationUpdate : Present(b.open) /\ Present(b.admin)}

\* PUT /organizations/{org_id} (update_organization), with the request body
\* drawn from bodies
update_organization(bodies) ==
    \E token \in Bearer, org_id \in Orgs \cup {"0"}, org_update \in bodies :
        LET cu == get_current_user(token, now)
            guard == require_org_admin(cu.user)
            found == {o \in organizations : o.id = org_id}
            org == First(found)
            super == is_super_admin(cu.user)
            updated ==
                [org EXCEPT
                    !.name = Assign(@, org_update.open.name),
                    !.domain = Assign(@, org_update.open.domain),
                    !.plan = IF super THEN Assign(@, org_update.admin.plan)
                             ELSE @,
                    !.is_active =
                        IF super THEN Assign(@, org_update.admin.is_active)
                        ELSE @,
                    !.max_users =
                        IF super THEN Assign(@, org_update.admin.max_users)
                        ELSE @,
                    !.max_api_keys =
                        IF super THEN Assign(@, org_update.admin.max_api_keys)
                        ELSE @,
                    !.settings = Assign(@, org_update.open.settings)]
            step == [JwtStep EXCEPT !.op = "update_organization",
                                    !.token = token, !.target = org_id,
                                    !.request = {<<"org_update", org_update>>}]
        IN  /\ IF cu.status # 200
               THEN /\ last' = [step EXCEPT !.status = cu.status,
                                            !.detail = cu.detail]
                    /\ UNCHANGED organizations
               ELSE IF guard.status # 200
               THEN /\ last' = [step EXCEPT !.status = 403, !.user = cu.user,
                                            !.detail = guard.detail]
                    /\ UNCHANGED organizations
               ELSE IF found = {}
               THEN /\ last' = [step EXCEPT !.status = 404, !.user = cu.user,
                                   !.detail = "Organization not found"]
                    /\ UNCHANGED organizations
               ELSE IF ~super /\ org.id # cu.user.organization_id
               THEN /\ last' = [step EXCEPT !.status = 403, !.user = cu.user,
                                            !.detail = "Access denied"]
                    /\ UNCHANGED organizations
               ELSE /\ organizations' = (organizations \ {org}) \cup {updated}
                    /\ last' = [step EXCEPT !.status = 200, !.user = cu.user,
                                   !.body = {<<"organization", updated>>}]
            /\ UNCHANGED <<users, refresh_tokens, issued, now, ticks>>
            /\ UNCHANGED <<User, AccessToken, RefreshToken, ntok, req,
                           refreshWins, rotatedOut, expiredSeen,
                           exchanged, loggedOut, pending>>

\* the roles the account administration routes tell apart
AdminRoles == {SUPER_ADMIN, ORG_ADMIN, USER}

\* the JWT service: accounts, sessions and administration
NextJwt ==
    \/ register_jwt(AdminRoles)
    \/ login_jwt
    \/ get_current_user_info
    \/ update_user(AdminRoles, {})

SpecJwt == InitJwt /\ [][NextJwt]_vars

\* the roles of the accounts that only hold sessions
SessionRoles == {USER}

\* a new register request is served in the first free slot
FreeRegister(r) ==
    /\ pending[r].op = "idle"
    /\ r = "r2" => pending["r1"].op # "idle"

\* POST /register of routes.py, up to the construction of the account: the
\* lookup of the email and the validation of the password
register_jwt_begin(r, roles) ==
    /\ FreeRegister(r)
    /\ \E email \in JwtEmails, password \in JwtPasswords, role \in roles,
          organization_id \in Orgs :
        LET step == [JwtStep EXCEPT !.op = "register_jwt", !.email = email]
        IN  IF \E u \in users : u.email = email
            THEN /\ last' = [step EXCEPT !.status = 400,
                                !.detail = "Email already registered",
                                !.cause = "existing_user"]
                 /\ UNCHANGED pending
            ELSE IF ~validate_password_strength(password)
            THEN /\ last' = [step EXCEPT !.status = 400,
                                !.detail = "Password too weak",
                                !.cause = "validate_password_strength"]
                 /\ UNCHANGED pending
            ELSE /\ pending' = [pending EXCEPT ![r] =
                        [op |-> "register_jwt", email |-> email,
                         password |-> password, role |-> role,
                         organization_id |-> organization_id]]
                 /\ last' = JwtStep
    /\ UNCHANGED <<users, refresh_tokens, issued, exchanged, loggedOut,
                   now, ticks, organizations>>
    /\ UNCHANGED <<User, AccessToken, RefreshToken, ntok, req,
                   refreshWins, rotatedOut, expiredSeen>>

\* the commit of register over a users table whose email is not unique
register_jwt_end_dup(r) ==
    /\ pending[r].op = "register_jwt"
    /\ users' = users \cup
           {[id |-> ToString(Cardinality(users) + 1),
             email |-> pending[r].email,
             password_hash |-> hash_password(pending[r].password),
             role |-> pending[r].role,
             organization_id |-> pending[r].organization_id,
             is_active |-> TRUE,
                        first_name |-> "Ann", last_name |-> "Lee"]}
    /\ last' = [JwtStep EXCEPT !.op = "register_jwt", !.status = 201,
                               !.email = pending[r].email]
    /\ pending' = [pending EXCEPT ![r] = NoRegister]
    /\ UNCHANGED organizations
    /\ UNCHANGED <<refresh_tokens, issued, exchanged, loggedOut, now, ticks>>
    /\ UNCHANGED <<User, AccessToken, RefreshToken, ntok, req,
                   refreshWins, rotatedOut, expiredSeen>>

\* POST /register of routes.py, db.add and db.commit: users.email is unique,
\* the commit of a second account of the email raises IntegrityError, which
\* nothing catches
register_jwt_end(r) ==
    /\ pending[r].op = "register_jwt"
    /\ LET step == [JwtStep EXCEPT !.op = "register_jwt",
                                   !.email = pending[r].email]
       IN  IF \E u \in users : u.email = pending[r].email
           THEN /\ last' = [step EXCEPT !.status = 500,
                               !.detail = "Internal Server Error",
                               !.cause = "IntegrityError"]
                /\ UNCHANGED users
           ELSE /\ users' = users \cup
                      {[id |-> ToString(Cardinality(users) + 1),
                        email |-> pending[r].email,
                        password_hash |-> hash_password(pending[r].password),
                        role |-> pending[r].role,
                        organization_id |-> pending[r].organization_id,
                        is_active |-> TRUE,
                        first_name |-> "Ann", last_name |-> "Lee"]}
                /\ last' = [step EXCEPT !.status = 201]
    /\ pending' = [pending EXCEPT ![r] = NoRegister]
    /\ UNCHANGED organizations
    /\ UNCHANGED <<refresh_tokens, issued, exchanged, loggedOut, now, ticks>>
    /\ UNCHANGED <<User, AccessToken, RefreshToken, ntok, req,
                   refreshWins, rotatedOut, expiredSeen>>

\* POST /register of main.py, the lookup of the email
register_begin(r) ==
    /\ FreeRegister(r)
    /\ \E email \in JwtEmails, password \in {"Sup3rSecret!"} :
        LET existing == {u \in User : u.email = email}
            step == [JwtStep EXCEPT !.op = "register", !.email = email]
        IN  IF existing # {}
            THEN /\ last' = [step EXCEPT !.status = 400,
                                !.detail = "Email already registered",
                                !.cause = "existing"]
                 /\ UNCHANGED pending
            ELSE /\ pending' = [pending EXCEPT ![r] =
                        [NoRegister EXCEPT !.op = "register",
                                           !.email = email,
                                           !.password = <<password>>]]
                 /\ last' = JwtStep
    /\ UNCHANGED <<users, refresh_tokens, issued, exchanged, loggedOut,
                   now, ticks, organizations>>
    /\ UNCHANGED <<User, AccessToken, RefreshToken, ntok, req,
                   refreshWins, rotatedOut, expiredSeen>>

\* POST /register of main.py, session.add and session.commit under the
\* unique email of the User model
register_end(r) ==
    /\ pending[r].op = "register"
    /\ LET step == [JwtStep EXCEPT !.op = "register",
                                   !.email = pending[r].email]
       IN  IF \E u \in User : u.email = pending[r].email
           THEN /\ last' = [step EXCEPT !.status = 500,
                               !.detail = "Internal Server Error",
                               !.cause = "IntegrityError"]
                /\ UNCHANGED User
           ELSE /\ User' = User \cup
                      {[id |-> ToString(Cardinality(User) + 1),
                        email |-> pending[r].email,
                        password_hash |->
                            get_password_hash(pending[r].password[1])]}
                /\ last' = [step EXCEPT !.status = 201]
    /\ pending' = [pending EXCEPT ![r] = NoRegister]
    /\ UNCHANGED organizations
    /\ UNCHANGED <<users, refresh_tokens, issued, exchanged, loggedOut,
                   now, ticks>>
    /\ UNCHANGED <<AccessToken, RefreshToken, ntok, req,
                   refreshWins, rotatedOut, expiredSeen>>

\* POST /login of main.py, served without another request in between
login ==
    \E email \in Emails \cup JwtEmails, password \in Passwords :
        LET found == {u \in User : u.email = email}
            user == First(found)
            step == [JwtStep EXCEPT !.op = "login", !.email = email]
        IN  /\ IF found = {} \/ ~verify_password(password, user.password_hash)
               THEN /\ last' = [step EXCEPT !.status = 401,
                                    !.detail = "Invalid credentials",
                                    !.cause = IF found = {}
                                              THEN "unknown_email"
                                              ELSE "wrong_password"]
                    /\ UNCHANGED <<AccessToken, RefreshToken, ntok>>
               ELSE /\ ntok + 2 <= MaxTok
                    /\ ntok' = ntok + 2
                    /\ AccessToken' = create_access_token(AccessToken, user.id,
                                               RawToken(ntok + 1), now)
                    /\ RefreshToken' =
                           store_refresh_token(RefreshToken, user.id,
                               RawToken(ntok + 2), now + REFRESH_EXPIRE)
                    /\ last' = [step EXCEPT !.status = 200]
            /\ UNCHANGED jwtVars
            /\ UNCHANGED <<User, now, ticks, req, refreshWins, rotatedOut,
                           expiredSeen>>

\* login of both services, one request at a time
NextLogin ==
    \/ register
    \/ login
    \/ register_jwt(SessionRoles)
    \/ login_jwt

SpecLogin == InitJwt /\ [][NextLogin]_vars

\* the digests an account row can hold: those the two services write, the
\* password itself, a truncated digest and the empty string
StoredDigests == {hash_password(Sup3rSecret), get_password_hash("Sup3rSecret!"),
                  <<"Sup3rSecret!">>, <<"bcrypt">>, <<>>}

\* both services over accounts whose rows were written outside the register
\* routes (imported, migrated from the other scheme, damaged)
InitDigest ==
    /\ User \in {{[id |-> "1", email |-> "alice@example.com",
                   password_hash |-> d]} : d \in StoredDigests}
    /\ AccessToken = {}
    /\ RefreshToken = {}
    /\ now = 0
    /\ ticks = 0
    /\ ntok = 0
    /\ req = [r \in Reqs |-> Idle]
    /\ last = JwtStep
    /\ refreshWins = {}
    /\ rotatedOut = {}
    /\ expiredSeen = {}
    /\ users \in {{[id |-> "1", email |-> "alice@example.com",
                    password_hash |-> d, role |-> USER,
                    organization_id |-> "acme", is_active |-> TRUE,
                        first_name |-> "Ann", last_name |-> "Lee"]} :
                    d \in StoredDigests}
    /\ refresh_tokens = {}
    /\ issued = {}
    /\ exchanged = {}
    /\ loggedOut = {}
    /\ pending = [r \in Reqs |-> NoRegister]
    /\ organizations = {}

NextDigest ==
    \/ login
    \/ login_jwt

SpecDigest == InitDigest /\ [][NextDigest]_vars

\* the claims a holder of the key can sign: with and without a subject, of
\* an active and of an inactive account, with a role of UserRole and with
\* another string
TokenData == [sub : {None, "1"}, email : {"alice@example.com"},
              organization_id : {"acme"},
              role : {USER, SUPER_ADMIN, "intern"}, is_active : BOOLEAN]

\* the tokens create_access_token and create_refresh_token make of them at
\* the start of the clock, and the forged one
Minted == {jwt_create_access_token(d, 0) : d \in TokenData}
          \cup {jwt_create_refresh_token(d, 0) : d \in TokenData}
          \cup {Forged}

\* a route that declares Depends(get_current_user)
current_user_route ==
    \E token \in Minted :
        LET cu == get_current_user(token, now)
        IN  /\ last' = [JwtStep EXCEPT !.op = "get_current_user",
                           !.token = token, !.status = cu.status,
                           !.detail = cu.detail, !.user = cu.user]
            /\ UNCHANGED jwtVars
            /\ UNCHANGED <<now, ticks>>
            /\ UNCHANGED_store

\* a route that declares Depends(get_optional_user): it is served whatever
\* the dependency returns
optional_user_route ==
    \E token \in Minted :
        LET ou == get_optional_user(token, now)
        IN  /\ last' = [JwtStep EXCEPT !.op = "get_optional_user",
                           !.token = token, !.status = 200,
                           !.user = IF ou = {} THEN NoUser ELSE First(ou)]
            /\ UNCHANGED jwtVars
            /\ UNCHANGED <<now, ticks>>
            /\ UNCHANGED_store

\* the two bearer dependencies of the shared middleware, with the clock
NextOptional ==
    \/ TickJwt
    \/ current_user_route
    \/ optional_user_route

SpecOptional == InitJwt /\ [][NextOptional]_vars

\* the routes that write the role of an account or read it into a token
NextEscalate ==
    \/ register_jwt(AdminRoles)
    \/ login_jwt
    \/ update_current_user
    \/ update_user({SUPER_ADMIN}, {})

SpecEscalate == InitJwt /\ [][NextEscalate]_vars

\* an account as register leaves it
Account(id, email, role, organization_id) ==
    [id |-> id, email |-> email,
     password_hash |-> hash_password(Sup3rSecret),
     role |-> role, organization_id |-> organization_id,
     is_active |-> TRUE, first_name |-> "Ann", last_name |-> "Lee"]

\* two registered accounts after the login of each: the refresh token rows
\* and the tokens of the two login responses
InitTwoSessions ==
    LET alice == Account("1", "alice@example.com", USER, "acme")
        bob == Account("2", "bob@example.com", USER, "globex")
    IN  /\ User = {}
        /\ AccessToken = {}
        /\ RefreshToken = {}
        /\ now = 0
        /\ ticks = 0
        /\ ntok = 0
        /\ req = [r \in Reqs |-> Idle]
        /\ last = JwtStep
        /\ refreshWins = {}
        /\ rotatedOut = {}
        /\ expiredSeen = {}
        /\ users = {alice, bob}
        /\ refresh_tokens =
               {[user_id |-> u.id,
                 token |-> jwt_create_refresh_token(token_data(u), 0),
                 expires_at |-> refresh_token_expire_days * 86400,
                 is_revoked |-> FALSE, revoked_at |-> {}] : u \in {alice, bob}}
        /\ issued =
               {jwt_create_access_token(token_data(u), 0) : u \in {alice, bob}}
               \cup
               {jwt_create_refresh_token(token_data(u), 0) : u \in {alice, bob}}
        /\ exchanged = {}
        /\ loggedOut = {}
        /\ pending = [r \in Reqs |-> NoRegister]
        /\ organizations = {}

\* the sessions of two accounts side by side
NextTwoSessions ==
    \/ logout
    \/ refresh_token

SpecTwoSessions == InitTwoSessions /\ [][NextTwoSessions]_vars

\* what an account does to itself: its password
NextPassword ==
    \/ register_jwt(SessionRoles)
    \/ login_jwt
    \/ change_password

SpecPassword == InitJwt /\ [][NextPassword]_vars

\* what an account does to itself: its profile
NextProfile ==
    \/ register_jwt(SessionRoles)
    \/ login_jwt
    \/ update_current_user

SpecProfile == InitJwt /\ [][NextProfile]_vars

\* the organizations of two tenants, each created beforehand by
\* create_organization, and one registered account in each: an admin of the
\* first, an account of any role in the second
InitTenancy ==
    /\ User = {}
    /\ AccessToken = {}
    /\ RefreshToken = {}
    /\ now = 0
    /\ ticks = 0
    /\ ntok = 0
    /\ req = [r \in Reqs |-> Idle]
    /\ last = JwtStep
    /\ refreshWins = {}
    /\ rotatedOut = {}
    /\ expiredSeen = {}
    /\ \E r1 \in {SUPER_ADMIN, ORG_ADMIN}, r2 \in AdminRoles :
           users = {Account("1", "alice@example.com", r1, "acme"),
                    Account("2", "bob@example.com", r2, "globex")}
    /\ refresh_tokens = {}
    /\ issued = {}
    /\ exchanged = {}
    /\ loggedOut = {}
    /\ pending = [r \in Reqs |-> NoRegister]
    /\ organizations = {Organization(id) : id \in Orgs}

\* the tenancy service and the accounts that call it
NextTenancy ==
    \/ login_jwt
    \/ get_organization
    \/ update_organization(OrganizationUpdate)

SpecTenancy == InitTenancy /\ [][NextTenancy]_vars

\* the routes that fetch one account or one organization by id
NextCrossTenant ==
    \/ login_jwt
    \/ get_user
    \/ update_user({}, {})
    \/ get_organization
    \/ update_organization(FullUpdate)

SpecCrossTenant == InitTenancy /\ [][NextCrossTenant]_vars

\* registration of both services under concurrent requests
NextRegister ==
    \/ \E r \in Reqs : register_jwt_begin(r, AdminRoles)
    \/ \E r \in Reqs : register_jwt_end(r)
    \/ \E r \in Reqs : register_begin(r)
    \/ \E r \in Reqs : register_end(r)

SpecRegister == InitJwt /\ [][NextRegister]_vars

\* the JWT service: the life of a session, with the clock
NextSession ==
    \/ TickJwt
    \/ register_jwt(SessionRoles)
    \/ login_jwt
    \/ refresh_token
    \/ logout
    \/ get_current_user_info

SpecSession == InitJwt /\ [][NextSession]_vars

\* the JWT service: login, refresh and logout within the life of the tokens
NextLogout ==
    \/ register_jwt(SessionRoles)
    \/ login_jwt
    \/ refresh_token
    \/ logout

SpecLogout == InitJwt /\ [][NextLogout]_vars

\* the JWT service: the sessions of an administrator who deactivates accounts
NextDeactivate ==
    \/ register_jwt({ORG_ADMIN})
    \/ login_jwt
    \/ get_current_user_info
    \/ refresh_token
    \/ update_user({ORG_ADMIN}, {})

SpecDeactivate == InitJwt /\ [][NextDeactivate]_vars

\* the RBAC and tenant dependencies applied to authenticated callers
NextRbac ==
    \/ register_jwt(UserRole)
    \/ login_jwt
    \/ role_checker
    \/ tenant_verify_access
    \/ tenant_apply_filter

SpecRbac == InitJwt /\ [][NextRbac]_vars

\* ------------------------------------------------------------------------
\* Properties of the store-backed service
\* ------------------------------------------------------------------------
AccessRowsOf(token) ==
    {row \in AccessToken : row.token_hash = <<"sha256", token>>}

\* C1: single-use refresh. Of the refresh requests that present the same
\* refresh token, run one after the other or interleaved between the commits
\* of the helpers, at most one is answered with a token pair.
C1_SingleUseRefresh == \A w \in refreshWins : w[2] <= 1

\* C2: rotation invalidates siblings. Every access token and every refresh
\* token that was stored for the account when a refresh request began is,
\* once that request has succeeded, rejected by verify_access_token and by
\* verify_refresh_token (for every user_id) from then on.
C2_RotationInvalidatesSiblings ==
    \A kh \in rotatedOut :
        IF kh[1] = "access"
        THEN verify_access_token(AccessToken, kh[2][2], now).ret = None
        ELSE \A user_id \in UserIds \cup {"0"} :
                ~verify_refresh_token(RefreshToken, user_id, kh[2][2], now).ret

\* a refresh has succeeded and rotated out the pair of the login
C2_Witness ==
    /\ last.op = "refresh" /\ last.status = 200
    /\ \E kh \in rotatedOut : kh[1] = "access"
    /\ \E kh \in rotatedOut : kh[1] = "refresh"
    /\ AccessToken # {} /\ RefreshToken # {}

\* C3: refresh is atomic. When a refresh request stops between two of its
\* steps, the account either still holds the tokens it held when the request
\* began, or holds a stored access token and a stored refresh token.
C3_RefreshAtomic ==
    last.op = "crash" =>
        \/ last.pre \subseteq StoredFor(last.user_id)
        \/ /\ RowsOfUser(AccessToken, last.user_id) # {}
           /\ RowsOfUser(RefreshToken, last.user_id) # {}

\* C4: expiry is enforced. verify_access_token on a token whose stored row
\* has expires_at before the current time returns None, deletes that row and
\* nothing else, and no later lookup of the token finds a row.
C4_ExpiryEnforced ==
    /\ [][(/\ last'.op = "get_current_user"
           /\ \E row \in AccessRowsOf(last'.token) : row.expires_at < now)
          => /\ last'.ret = None
             /\ last'.status = 401
             /\ Cardinality(AccessRowsOf(last'.token)) = 1
             /\ AccessToken' = AccessToken \ AccessRowsOf(last'.token)
             /\ RefreshToken' = RefreshToken
             /\ User' = User
             /\ verify_access_token(AccessToken', last'.token, now').ret = None
             /\ verify_access_token(AccessToken', last'.token, now').table
                    = AccessToken']_vars
    /\ [](\A h \in expiredSeen : \A row \in AccessToken : row.token_hash # h)

\* an expired access token was presented, rejected and its row deleted
C4_Witness ==
    /\ last.op = "get_current_user"
    /\ last.ret = None
    /\ last.removed # {}
    /\ \A row \in last.removed : row.expires_at < now
    /\ expiredSeen # {}

\* C5: verification is idempotent. Resolving a present, unexpired access
\* token returns the account id of its row and changes neither the
\* access-token table, the refresh-token table nor the accounts; resolving
\* it again right away returns the same account id.
C5_IdempotentVerification ==
    [][(/\ last'.op = "get_current_user"
        /\ AccessRowsOf(last'.token) # {}
        /\ \A row \in AccessRowsOf(last'.token) : ~(row.expires_at < now))
       => /\ \A row \in AccessRowsOf(last'.token) : last'.ret = row.user_id
          /\ AccessToken' = AccessToken
          /\ RefreshToken' = RefreshToken
          /\ User' = User
          /\ verify_access_token(AccessToken', last'.token, now').ret
                 = last'.ret
          /\ verify_access_token(AccessToken', last'.token, now').table
                 = AccessToken']_vars

\* a valid access token was resolved to its account
C5_Witness ==
    /\ last.op = "get_current_user"
    /\ last.status = 200
    /\ last.ret \in UserIds
    /\ last.found # {}
    /\ last.found \subseteq AccessToken

\* ------------------------------------------------------------------------
\* Properties of the RBAC and tenant layer
\* ------------------------------------------------------------------------
\* the step just taken ran the dependency op for an authenticated caller
Authenticated(op) == last.op = op /\ last.user # NoUser

\* C6: role dominance for the org-admin requirement. The dependency of
\* require_org_admin() lets a super_admin and an org_admin through and
\* raises 403 for a user, a support_agent and a billing_admin.
C6_RequireOrgAdmin ==
    (Authenticated("role_checker") /\ last.dep = "require_org_admin") =>
        /\ last.user.role \in {SUPER_ADMIN, ORG_ADMIN} => last.status = 200
        /\ last.user.role \in {USER, SUPPORT_AGENT, BILLING_ADMIN}
               => last.status = 403

\* require_org_admin() has let a super_admin through, or stopped a user
C6_Witness ==
    /\ Authenticated("role_checker") /\ last.dep = "require_org_admin"
    /\ \/ last.user.role = SUPER_ADMIN /\ last.status = 200
       \/ last.user.role = USER /\ last.status = 403

C8_TenantFilter ==
    Authenticated("apply_tenant_filter") =>
        IF last.user.role = SUPER_ADMIN
        THEN last.rows = last.query
        ELSE /\ last.rows \subseteq last.query
             /\ \A row \in last.rows :
                    row.organization_id = last.user.organization_id

\* a caller that is not super_admin listed a table with rows of two
\* organizations and got the rows of its own
C8_Witness ==
    /\ Authenticated("apply_tenant_filter")
    /\ last.user.role # SUPER_ADMIN
    /\ last.query = Resources
    /\ last.rows # {} /\ last.rows # last.query

\* C9, as claimed: verify_access lets a caller that is not super_admin
\* through only if the resource's organization id equals the caller's, and
\* raises 403 in every other case; a super_admin is let through always.
C9_VerifyAccessOwnOrgOnly ==
    Authenticated("verify_access") =>
        IF last.user.role = SUPER_ADMIN
        THEN last.status = 200
        ELSE /\ last.status = 200
                  <=> last.resource_org_id = last.user.organization_id
             /\ last.status # 200 => last.status = 403

\* C9, amended: verify_access lets a caller that is not super_admin through
\* if the resource's organization id equals the caller's or the resource has
\* no organization id (None), and raises 403 in every other case; a
\* super_admin is let through always.
C9_VerifyAccessOwnOrgOrNone ==
    Authenticated("verify_access") =>
        IF last.user.role = SUPER_ADMIN
        THEN last.status = 200
        ELSE /\ last.status = 200
                  <=> \/ last.resource_org_id = last.user.organization_id
                      \/ last.resource_org_id = None
             /\ last.status # 200 => last.status = 403

\* a caller that is not super_admin was let through to a resource that has
\* no organization id
C9_Witness ==
    /\ Authenticated("verify_access")
    /\ last.user.role # SUPER_ADMIN
    /\ last.resource_org_id = None
    /\ last.status = 200

\* ------------------------------------------------------------------------
\* Properties of the JWT service
\* ------------------------------------------------------------------------
\* C10: deactivation takes effect on verification. A bearer-authenticated
\* request is accepted only for an account whose is_active flag is set: once
\* update_user has cleared the flag, every token of the account is rejected.
C10_DeactivationRejects ==
    (last.op = "get_current_user_info" /\ last.status = 200) =>
        \A u \in users : u.id = last.user.user_id => u.is_active

\* ------------------------------------------------------------------------
\* Properties of the sessions of the JWT service
\* ------------------------------------------------------------------------
\* C11: single-use refresh token of routes.py. A refresh token that POST
\* /refresh has exchanged successfully once is rejected with 401 by every
\* later POST /refresh that presents it.
C11_JwtRefreshSingleUse ==
    (last.op = "refresh_token" /\ last.replay) => last.status = 401

\* C12: logout revokes the refresh token. Once a logout of the account that
\* owns refresh token R, presenting R, has succeeded, the row of R is revoked
\* for good and every later POST /refresh with R is rejected with 401.
C12_LogoutRevokesRefresh ==
    /\ \A token \in loggedOut :
          /\ \E row \in refresh_tokens : row.token = token
          /\ \A row \in refresh_tokens : row.token = token => row.is_revoked
    /\ (last.op = "refresh_token" /\ last.token \in loggedOut)
          => last.status = 401

\* the owner logged out with the refresh token of the login, and a later
\* POST /refresh with it was rejected
C12_Witness ==
    /\ last.op = "refresh_token"
    /\ last.token \in loggedOut
    /\ last.token \in issued
    /\ last.status = 401

\* C13: logout invalidates the bearer access token. A bearer token that was
\* presented with a logout that succeeded is rejected by get_current_user
\* (401 or 403) on the requests that follow, the next one to begin with.
C13_LogoutInvalidatesBearer ==
    [][(/\ last.op = "logout" /\ last.status = 200
        /\ last'.op = "get_current_user_info"
        /\ last'.token = last.token)
       => last'.status \in {401, 403}]_vars

\* ------------------------------------------------------------------------
\* Properties of registration and login
\* ------------------------------------------------------------------------
\* the emails of the accounts of the two services
RegisteredJwt == {u.email : u \in users}
RegisteredStore == {u.email : u \in User}

C15_GenericLoginRejection ==
    [][/\ (/\ last'.op = "login_jwt"
           /\ \/ last'.email \notin RegisteredJwt
              \/ last'.cause = "wrong_password")
          => /\ last'.status = 401
             /\ last'.detail = "Incorrect email or password"
             /\ last'.body = {}
             /\ users' = users
             /\ refresh_tokens' = refresh_tokens
             /\ issued' = issued
       /\ (/\ last'.op = "login"
           /\ \/ last'.email \notin RegisteredStore
              \/ last'.cause = "wrong_password")
          => /\ last'.status = 401
             /\ last'.detail = "Invalid credentials"
             /\ last'.body = {}
             /\ User' = User
             /\ AccessToken' = AccessToken
             /\ RefreshToken' = RefreshToken
             /\ ntok' = ntok]_vars

\* a login with the email of an account and a wrong password was rejected
\* while another email is not registered
C15_Witness ==
    /\ last.op = "login_jwt"
    /\ last.email \in RegisteredJwt
    /\ last.cause = "wrong_password"
    /\ last.status = 401
    /\ JwtEmails \ RegisteredJwt # {}

\* C16: an expired token and an unknown token get the same answer. POST
\* /refresh of routes.py answers a refresh token whose row has expired as it
\* answers one that has no row: 401 with the same detail.
C16_ExpiredLikeUnknown ==
    (last.op = "refresh_token" /\ last.cause \in {"unknown", "expired"})
        => /\ last.status = 401
           /\ last.detail = "Invalid refresh token"

\* the live rows of a table of the store-backed service for an account
Live(table, user_id) ==
    {row \in RowsOfUser(table, user_id) : ~IsExpired(row, now)}

\* C17: the raw value of a session token is never stored. Every row of the
\* access-token and refresh-token tables of main.py holds the hash of a raw
\* token, and no row of refresh_tokens of routes.py holds a token that was
\* handed to a client.
C17_RawTokenNeverStored ==
    /\ \A row \in AccessToken :
          \E n \in 1..ntok : row.token_hash = _hash_token(RawToken(n))
    /\ \A row \in RefreshToken :
          \E n \in 1..ntok : row.token_hash = hash_refresh_token(RawToken(n))
    /\ \A row \in refresh_tokens : row.token \notin issued

\* C18: a successful refresh returns a new pair. The body of every POST
\* /refresh of routes.py answered 200 holds an access token and a refresh
\* token, the refresh token another one than the one presented.
C18_RefreshReturnsNewPair ==
    (last.op = "refresh_token" /\ last.status = 200) =>
        /\ \E pair \in last.body : pair[1] = "access_token"
        /\ \E pair \in last.body :
              pair[1] = "refresh_token" /\ pair[2] # last.token

\* C19: at most one live pair per account. After any sequence of login and
\* refresh operations of main.py an account has at most one stored,
\* unexpired access token and at most one stored, unexpired refresh token.
C19_AtMostOneLivePair ==
    \A u \in User :
        /\ Cardinality(Live(AccessToken, u.id)) <= 1
        /\ Cardinality(Live(RefreshToken, u.id)) <= 1

\* C20: an inactive account is answered 403. A login with the right
\* password, and a POST /refresh with a stored, unrevoked, unexpired refresh
\* token, of an account whose is_active flag is cleared are rejected with
\* 403, as is a bearer token that get_current_user finds inactive.
C20_InactiveForbidden ==
    /\ (last.op = "login_jwt" /\ last.cause = "inactive") => last.status = 403
    /\ (/\ last.op = "get_current_user_info"
        /\ decode_token(last.token, now)
        /\ ~last.token.payload.is_active) => last.status = 403
    /\ (/\ last.op = "refresh_token"
        /\ \E row \in refresh_tokens :
              /\ row.token = last.token
              /\ ~row.is_revoked
              /\ ~(row.expires_at < now)
              /\ \E u \in users : u.id = row.user_id /\ ~u.is_active)
          => last.status = 403

\* ------------------------------------------------------------------------
\* Properties of the credential hasher
\* ------------------------------------------------------------------------
\* the digest stored for the email of the step just taken is not one the
\* service's own hasher writes
MalformedJwt ==
    \E u \in users : /\ u.email = last.email
                     /\ u.password_hash # hash_password(Sup3rSecret)
MalformedStore ==
    \E u \in User : /\ u.email = last.email
                    /\ u.password_hash # get_password_hash("Sup3rSecret!")

\* C21: password verification returns false and never raises on a malformed
\* digest. A login of either service for an account whose stored digest is
\* malformed ends in the 401 rejection for invalid credentials.
C21_MalformedDigestRejected ==
    /\ (last.op = "login_jwt" /\ MalformedJwt) =>
           /\ last.status = 401
           /\ last.detail = "Incorrect email or password"
    /\ (last.op = "login" /\ MalformedStore) =>
           /\ last.status = 401
           /\ last.detail = "Invalid credentials"

\* ------------------------------------------------------------------------
\* Properties of the tenant boundary
\* ------------------------------------------------------------------------
\* the caller of the step just taken, as the bearer token presents it
Caller == get_current_user(last.token, now)

\* the organization of the row the step just taken asked for by id: of an
\* account for the account routes, of itself for the organization routes
TargetOrg ==
    IF last.op \in {"get_user", "update_user"}
    THEN {u.organization_id : u \in {x \in users : x.id = last.target}}
    ELSE IF last.op \in {"get_organization", "update_organization"}
    THEN {o.id : o \in {x \in organizations : x.id = last.target}}
    ELSE {}

PointRoutes == {"get_user", "update_user", "get_organization",
                "update_organization"}

\* C22: cross-tenant point access is forbidden. An authenticated org_admin that
\* asks by id for an account or an organization of another organization is
\* answered 403, nothing of the target is in the response and no account and
\* no organization changes; a super_admin is answered 200 for a target of any
\* organization.
C22_CrossTenantForbidden ==
    [][(last'.op \in PointRoutes /\ Caller'.status = 200 /\ TargetOrg' # {}) =>
          /\ (/\ Caller'.user.role = ORG_ADMIN
              /\ Caller'.user.organization_id \notin TargetOrg')
                 => /\ last'.status = 403
                    /\ last'.body = {}
                    /\ users' = users
                    /\ organizations' = organizations
          /\ Caller'.user.role = SUPER_ADMIN => last'.status = 200]_vars

C22_Witness ==
    /\ last.op = "update_user"
    /\ Caller.status = 200
    /\ Caller.user.role = ORG_ADMIN
    /\ TargetOrg # {}
    /\ Caller.user.organization_id \notin TargetOrg
    /\ last.status = 403
    /\ last.detail = "Access denied"

\* ------------------------------------------------------------------------
\* Properties of the routes an account calls on itself
\* ------------------------------------------------------------------------
\* the value of a field of the request of the step just taken
Requested(field) == {pair[2] : pair \in {x \in last.request : x[1] = field}}

\* the account of the caller of the step just taken
CallerRows == {u \in users : u.id = Caller.user.user_id}

\* C23: validation precedes every side effect. A register request whose
\* password fails validate_password_strength creates no account; a
\* change_password request with an old password that is not the account's or
\* with a new password that fails the validation leaves every account as it
\* was, password_hash included.
C23_ValidationBeforeEffects ==
    [][/\ (/\ last'.op = "register_jwt"
           /\ \E pw \in Requested("password")' :
                  ~validate_password_strength(pw))
          => users' = users
       /\ (/\ last'.op = "change_password"
           /\ \/ \E pw \in Requested("new_password")' :
                     ~validate_password_strength(pw)
              \/ \E pw \in Requested("old_password")', u \in users :
                     /\ Caller'.status = 200
                     /\ u.id = Caller'.user.user_id
                     /\ u.password_hash # hash_password(pw))
          => users' = users]_vars

C23_Witness ==
    /\ last.op = "change_password"
    /\ Caller.status = 200
    /\ CallerRows # {}
    /\ \E pw \in Requested("old_password"), u \in CallerRows :
           u.password_hash = hash_password(pw)
    /\ \E pw \in Requested("new_password") : ~validate_password_strength(pw)
    /\ last.status = 400

\* C24: PUT /me changes only the first_name and the last_name of the caller.
\* Whatever the body carries, role and is_active included, every account
\* keeps its id, role, is_active, email, organization_id and password_hash,
\* and every account but the caller's stays as it was.
C24_ProfileUpdateFrame ==
    [][last'.op = "update_current_user" =>
          /\ {u.id : u \in users'} = {u.id : u \in users}
          /\ \A u \in users : \E v \in users' :
                 /\ v.id = u.id
                 /\ v.role = u.role
                 /\ v.is_active = u.is_active
                 /\ v.email = u.email
                 /\ v.organization_id = u.organization_id
                 /\ v.password_hash = u.password_hash
                 /\ (Caller'.status # 200 \/ u.id # Caller'.user.user_id)
                       => v = u]_vars

C24_Witness ==
    /\ last.op = "update_current_user"
    /\ last.status = 200
    /\ \E u \in CallerRows : u.first_name = "Zed" /\ u.last_name = "Lee"
    /\ \E u \in users : u \notin CallerRows

\* C25: update_organization by a caller that is not super_admin leaves plan,
\* is_active, max_users and max_api_keys of every organization as they were,
\* whatever the body carries, and changes nothing of an organization that is
\* not the caller's.
C25_OrgAdminUpdateFrame ==
    [][(/\ last'.op = "update_organization"
        /\ Caller'.status = 200
        /\ Caller'.user.role # SUPER_ADMIN) =>
          /\ {o.id : o \in organizations'} = {o.id : o \in organizations}
          /\ \A o \in organizations : \E n \in organizations' :
                 /\ n.id = o.id
                 /\ n.plan = o.plan
                 /\ n.is_active = o.is_active
                 /\ n.max_users = o.max_users
                 /\ n.max_api_keys = o.max_api_keys
                 /\ o.id # Caller'.user.organization_id => n = o]_vars

C25_Witness ==
    /\ last.op = "update_organization"
    /\ last.status = 200
    /\ Caller.user.role = ORG_ADMIN
    /\ \E b \in Requested("org_update") : Present(b.open) /\ Present(b.admin)
    /\ \E o \in organizations :
           /\ o.id = Caller.user.organization_id
           /\ o.name = "Acme Ltd"
           /\ o.plan = "free"

\* ------------------------------------------------------------------------
\* Properties of the rejected refresh of the store-backed service
\* ------------------------------------------------------------------------
\* C26: a refresh with a token that is not a stored unexpired refresh token
\* of the user_id of the request is rejected with 401 and deletes no access
\* token and no unexpired refresh token of any account. A request passes
\* verify_refresh_token only with a stored unexpired row of its user_id and
\* its token; the step that answers 401 leaves the access tokens as they
\* were and removes refresh token rows that have expired only.
C26_RejectedRefreshKeepsTokens ==
    [][/\ \A r \in Reqs :
             (req[r].pc = "idle" /\ req'[r].op = "refresh"
                                /\ req'[r].pc = "verified") =>
                \E row \in RefreshToken :
                    /\ row.user_id = req'[r].user_id
                    /\ row.token_hash = hash_refresh_token(req'[r].token)
                    /\ ~IsExpired(row, now)
       /\ (last'.op = "refresh" /\ last'.status = 401) =>
             /\ \A r \in Reqs : req'[r] = req[r]
             /\ AccessToken' = AccessToken
             /\ RefreshToken' \subseteq RefreshToken
             /\ \A row \in RefreshToken \ RefreshToken' :
                    IsExpired(row, now)]_vars

C26_Witness ==
    /\ last.op = "refresh"
    /\ last.status = 401
    /\ AccessToken # {}
    /\ \E row \in RefreshToken : ~IsExpired(row, now)

\* ------------------------------------------------------------------------
\* Properties of the token kinds of the JWT service
\* ------------------------------------------------------------------------
\* C27: token kinds are not interchangeable. A token minted by
\* create_refresh_token (claim type = refresh) presented as the bearer of
\* GET /me is rejected by get_current_user, and a token minted by
\* create_access_token presented to POST /refresh is rejected.
C27_TokenKindsNotInterchangeable ==
    /\ (/\ last.op = "get_current_user_info"
        /\ last.token.payload.type = "refresh")
          => last.status = 401
    /\ (/\ last.op = "refresh_token"
        /\ last.token.sig = jwt_secret_key
        /\ last.token.payload.type # "refresh")
          => last.status = 401

\* C28: get_optional_user agrees with get_current_user. For every bearer
\* token, get_optional_user returns a user only if get_current_user accepts
\* the token, and then the same user id, email, organization id and role;
\* for every token get_current_user rejects it returns None.
C28_OptionalAgreesWithCurrent ==
    last.op = "get_optional_user" =>
        LET cu == get_current_user(last.token, now)
        IN  /\ cu.status # 200 => last.user = NoUser
            /\ last.user # NoUser =>
                   /\ last.user.user_id = cu.user.user_id
                   /\ last.user.email = cu.user.email
                   /\ last.user.organization_id = cu.user.organization_id
                   /\ last.user.role = cu.user.role

\* ------------------------------------------------------------------------
\* Properties of the role of an account
\* ------------------------------------------------------------------------
\* C29: no privilege escalation to the top role. From a state without a
\* super_admin, whatever register, login, update_current_user and update_user
\* requests are made, by callers without a token or with the token of an
\* account that is not super_admin, no account has the role super_admin.
C29_NoEscalationToSuperAdmin == \A u \in users : u.role # SUPER_ADMIN

\* ------------------------------------------------------------------------
\* Properties of logout across accounts
\* ------------------------------------------------------------------------
\* the rows of refresh_tokens the caller of the step just taken owns and
\* presented in the body
OwnPresented ==
    {row \in refresh_tokens :
        /\ row.user_id = Caller.user.user_id
        /\ row.token \in Requested("refresh_token")}

\* C30: logout affects only the caller's own tokens. A logout that presents
\* a refresh token stored for another account, or one stored for nobody, is
\* answered with success and leaves every row of refresh_tokens as it was;
\* a refresh with a token whose row is neither revoked nor expired, the other
\* account's included, is answered 200.
C30_LogoutOwnTokensOnly ==
    [][/\ (/\ last'.op = "logout"
           /\ Caller'.status = 200
           /\ OwnPresented' = {})
          => /\ last'.status = 200
             /\ last'.detail = "Logged out successfully"
             /\ refresh_tokens' = refresh_tokens
       /\ (/\ last'.op = "refresh_token"
           /\ \E row \in refresh_tokens :
                  /\ row.token = last'.token
                  /\ ~row.is_revoked
                  /\ ~(row.expires_at < now))
          => last'.status = 200]_vars

C30_Witness ==
    /\ last.op = "logout"
    /\ last.status = 200
    /\ \E row \in refresh_tokens :
           /\ row.token \in Requested("refresh_token")
           /\ row.user_id # Caller.user.user_id
           /\ ~row.is_revoked

====
